---- MODULE Spec2Model ----
(***************************************************************************)
(* Hybrid search engine of the contacto app: the in-memory VectorStore,    *)
(* the KeywordSearchService (LIKE-based simple search over the contacts    *)
(* table), the embedding cache of AIService and the HybridSearchService    *)
(* coordinator that fuses both result lists.                               *)
(*                                                                         *)
(* Numbers.  Scores are exact decimals in the code's cases; the model      *)
(* keeps them as integers on fixed scales:                                 *)
(*   vector components      in units of 1/10                               *)
(*   cosine similarities    in units of 1/100                              *)
(*   keyword scores         in units of 1/1000                             *)
(*   fused (final) scores   in units of 1/10000                            *)
(* Text is a sequence of one-character strings.                            *)
(***************************************************************************)
EXTENDS Integers, Sequences, FiniteSets, TLC

VARIABLES
    contacts,     \* ids of the rows in the contacts table (the row of id is RowOf(id))
    maxResults,   \* config.maxResults of the HybridSearchService instance
    vsReady,      \* HybridSearchService.vectorStore !== null
    documents,    \* VectorStore.documents
    dimension,    \* VectorStore.dimension: {} while null, {d} once set
    cache,        \* AIService.embeddingCache
    lastDebug,    \* HybridSearchService.lastDebug
    call,         \* the search call that has just returned (NoCall otherwise)
    mIn,          \* inputs handed to mergeAndRankResults (merge specification)
    mOut,         \* what mergeAndRankResults returned for mIn
    tasks,        \* the calls in flight: what each has done and holds at its await
    conversations, \* ids of the rows in the conversations table
    tagEdits      \* the tags ContactRepository.updateContact has written, by contact
                  \* id (a contact without entry has the tags of its Catalogue row)

vars == <<contacts, maxResults, vsReady, documents, dimension, cache,
          lastDebug, call, mIn, mOut, tasks, conversations, tagEdits>>

\* no call in flight
NoTasks == <<>>

\* no tags rewritten
NoEdits == <<>>

\* null / undefined / SQL NULL where a text is expected: no text equals it
Null == <<"NULL">>

\* the null ContactRepository.getContact answers for an unknown id
NoContact == [id |-> "null"]

(***************************************************************************)
(* Text                                                                    *)
(***************************************************************************)

\* The characters the model's texts use, in ASCII order.
AsciiOrder ==
    <<" ", "\"", ",", "5", ":", "@", "A", "D", "I", "L", "M", "[", "]",
      "_", "a", "c", "d", "e", "g", "h", "i", "l", "m", "n", "o", "s", "t",
      "v", "x", "y", "z">>

Ascii(c) == CHOOSE i \in 1..Len(AsciiOrder) : AsciiOrder[i] = c

toLowerCaseChar(c) ==
    CASE c = "A" -> "a"
      [] c = "D" -> "d"
      [] c = "I" -> "i"
      [] c = "L" -> "l"
      [] c = "M" -> "m"
      [] OTHER   -> c

toLowerCase(s) == [i \in 1..Len(s) |-> toLowerCaseChar(s[i])]

IsSpace(c) == c = " "

\* String.prototype.includes
includes(s, t) ==
    \E i \in 0..(Len(s) - Len(t)) : \A j \in 1..Len(t) : s[i + j] = t[j]

\* String.prototype.trim
RECURSIVE trimStart(_)
trimStart(s) ==
    IF s # <<>> /\ IsSpace(Head(s)) THEN trimStart(Tail(s)) ELSE s

RECURSIVE trimEnd(_)
trimEnd(s) ==
    IF s # <<>> /\ IsSpace(s[Len(s)]) THEN trimEnd(SubSeq(s, 1, Len(s) - 1)) ELSE s

trim(s) == trimEnd(trimStart(s))

\* s.split(/\s+/): the pieces between runs of whitespace, empty pieces kept
RECURSIVE splitFrom(_, _, _, _, _)
splitFrom(s, i, cur, acc, inSep) ==
    IF i > Len(s) THEN Append(acc, cur)
    ELSE IF IsSpace(s[i])
         THEN IF inSep THEN splitFrom(s, i + 1, cur, acc, TRUE)
              ELSE splitFrom(s, i + 1, <<>>, Append(acc, cur), TRUE)
         ELSE splitFrom(s, i + 1, Append(cur, s[i]), acc, FALSE)

split(s) == splitFrom(s, 1, <<>>, <<>>, FALSE)

SelectNonEmpty(ws) == SelectSeq(ws, LAMBDA w : Len(w) > 0)

\* Array.prototype.join
RECURSIVE join(_, _)
join(ws, sep) ==
    IF ws = <<>> THEN <<>>
    ELSE IF Len(ws) = 1 THEN ws[1]
    ELSE ws[1] \o sep \o join(Tail(ws), sep)

\* JSON.stringify of an array of strings (no character of the model's texts needs escaping)
JsonStringify(tags) ==
    <<"[">> \o join([i \in 1..Len(tags) |-> <<"\"">> \o tags[i] \o <<"\"">>], <<",">>) \o <<"]">>

\* BINARY collation of ORDER BY name ASC: a < b
RECURSIVE TextLess(_, _)
TextLess(a, b) ==
    IF b = <<>> THEN FALSE
    ELSE IF a = <<>> THEN TRUE
    ELSE IF Ascii(Head(a)) # Ascii(Head(b)) THEN Ascii(Head(a)) < Ascii(Head(b))
    ELSE TextLess(Tail(a), Tail(b))

\* the LIKE operator of SQLite on lower-cased texts: % stands for any run of
\* characters, _ for any one character
RECURSIVE likeMatch(_, _)
likeMatch(s, pattern) ==
    IF pattern = <<>> THEN s = <<>>
    ELSE IF Head(pattern) = "%"
    THEN likeMatch(s, Tail(pattern)) \/ (s # <<>> /\ likeMatch(Tail(s), pattern))
    ELSE /\ s # <<>>
         /\ Head(pattern) = "_" \/ Head(pattern) = Head(s)
         /\ likeMatch(Tail(s), Tail(pattern))

\* column LIKE '%term%': case-insensitive on ASCII letters, a NULL column never
\* matches, and a % or _ of the term is a wildcard (the query is not escaped)
Like(column, term) ==
    column # Null /\ likeMatch(toLowerCase(column), <<"%">> \o toLowerCase(term) \o <<"%">>)

(***************************************************************************)
(* The texts, the contacts table and the queries of the model              *)
(***************************************************************************)

TxtAda          == <<"A", "d", "a">>
TxtAdaLovelace  == <<"A", "d", "a", " ", "L", "o", "v", "e", "l", "a", "c", "e">>
TxtADAM         == <<"A", "D", "A", "M">>
TxtAdaMail      == <<"a", "d", "a", "@", "x">>
TxtMathematician == <<"m", "a", "t", "h", "e", "m", "a", "t", "i", "c", "i", "a", "n">>
TxtXyz          == <<"x", "y", "z">>
TxtLin          == <<"L", "i", "n">>
TxtAi           == <<"a", "i">>
Txt555          == <<"5", "5", "5">>
TxtX            == <<"x">>
TxtAUnderscoreA == <<"a", "_", "a">>
TxtBlank        == <<" ">>
TxtPoet         == <<"P", "o", "e", "t">>
TxtTagsPrefix   == <<"t", "a", "g", "s", ":", " ">>

\* ContactRepository.createContact: the row INSERTed for the given data
\* (phone/email NULL when absent, tags the JSON text of the array or NULL).
createContactRow(id, name, email, phone, tags) ==
    [id |-> id, name |-> name, email |-> email, phone |-> phone,
     tags |-> IF tags = Null THEN Null ELSE JsonStringify(tags)]

\* The rows the model's directory is made of.  Names are pairwise different, so
\* ORDER BY name ASC is a total order.
Catalogue ==
    { createContactRow("c1", TxtAdaLovelace, Null, Null, <<TxtMathematician>>),
      createContactRow("c2", TxtAda, TxtAdaMail, Null, Null),
      createContactRow("c3", TxtADAM, Null, Null, <<TxtMathematician>>),
      createContactRow("c4", TxtLin, Null, Txt555, <<TxtAi>>) }

ContactIds == {r.id : r \in Catalogue}

\* a function of the model computed once, for all its arguments
Tabulate(t) == IF t = t THEN t ELSE t

RowOf(id) == CHOOSE r \in Catalogue : r.id = id
IdsOf(rows) == {r.id : r \in rows}

\* the rows of the table, tabulated by the set of their ids
RowsTable == Tabulate([ids \in SUBSET ContactIds |-> {RowOf(id) : id \in ids}])

Rows(ids) == RowsTable[ids]

\* The rows the conversations table is made of: the tags are those
\* processConversation stored, the createdAt values order the rows
ConversationCatalogue ==
    { [id |-> "v1", contactId |-> "c1", tags |-> JsonStringify(<<TxtPoet>>),
       createdAt |-> 1],
      [id |-> "v2", contactId |-> "c1", tags |-> JsonStringify(<<TxtAda, TxtPoet>>),
       createdAt |-> 2],
      [id |-> "v3", contactId |-> "c3", tags |-> JsonStringify(<<TxtPoet>>),
       createdAt |-> 3] }

ConversationIds == {v.id : v \in ConversationCatalogue}

ConversationOf(id) == CHOOSE v \in ConversationCatalogue : v.id = id

\* the contacts that have conversations
ConversationContacts == {v.contactId : v \in ConversationCatalogue}

\* the tags a contact of the model can carry
TagChoices == {TxtPoet, TxtAda, TxtMathematician}

\* the tag lists written to a contact: no tag twice
EditedTagLists ==
    UNION {{ts \in [1..n -> TagChoices] : \A i, j \in 1..n : ts[i] = ts[j] => i = j} :
              n \in 0..Cardinality(TagChoices)}

\* the tags written, by contact id
EditFunctions == UNION {[ids -> EditedTagLists] : ids \in SUBSET ConversationContacts}

\* an update that takes an empty tag list for an absent one and keeps the tags
updateRowTagsCoalesce(row, tags) ==
    IF tags = <<>> THEN row ELSE [row EXCEPT !.tags = JsonStringify(tags)]

\* UPDATE contacts SET tags = COALESCE(?, tags): the row after the update
updateRowTags(row, tags) == [row EXCEPT !.tags = JsonStringify(tags)]

\* the contacts table: the rows of the ids, with the tags written since
Directory(ids, edits) ==
    {IF r.id \in DOMAIN edits THEN updateRowTags(r, edits[r.id]) ELSE r : r \in Rows(ids)}

\* the tables of the model in which tags were written
EditedDirectories ==
    {Directory(ids, edits) : ids \in SUBSET ConversationContacts, edits \in EditFunctions}

EditedRows == UNION EditedDirectories

\* the contacts the directory of the search specification is made of
SearchIds == {"c1", "c2", "c3"}

Queries == {TxtAda, TxtXyz, TxtBlank}

\* config.maxResults: two small overrides given to the constructor, and the default
MaxResultsChoices == {1, 2, 25}

\* JSON.parse of the tags column: the texts between quotes
RECURSIVE parseFrom(_, _, _, _, _)
parseFrom(s, i, cur, acc, inStr) ==
    IF i > Len(s) THEN acc
    ELSE IF s[i] = "\""
         THEN IF inStr THEN parseFrom(s, i + 1, <<>>, Append(acc, cur), FALSE)
              ELSE parseFrom(s, i + 1, <<>>, acc, TRUE)
         ELSE IF inStr THEN parseFrom(s, i + 1, Append(cur, s[i]), acc, TRUE)
              ELSE parseFrom(s, i + 1, cur, acc, FALSE)

JsonParse(s) == parseFrom(s, 1, <<>>, <<>>, FALSE)

\* The Contact object the repository builds from a row
parseRow(row) ==
    [id |-> row.id, name |-> row.name, email |-> row.email, phone |-> row.phone,
     tags |-> IF row.tags # Null /\ row.tags # <<>> THEN JsonParse(row.tags) ELSE <<>>]

\* parseRow tabulated over the rows of the model
ContactTable == Tabulate([id \in ContactIds |-> parseRow(RowOf(id))])

\* ... and over the rows in which tags were written
EditedContactTable == Tabulate([row \in EditedRows |-> parseRow(row)])

rowToContact(row) ==
    IF row \in Catalogue THEN ContactTable[row.id] ELSE EditedContactTable[row]

\* Rows of a set ordered by (rank[row], name ASC), rank a function on the rows
RECURSIVE OrderRows(_, _)
OrderRows(rows, rank) ==
    IF rows = {} THEN <<>>
    ELSE LET Before(a, b) ==
                 \/ rank[a] < rank[b]
                 \/ rank[a] = rank[b] /\ TextLess(a.name, b.name)
             first == CHOOSE r \in rows : \A o \in rows \ {r} : ~Before(o, r)
         IN  <<first>> \o OrderRows(rows \ {first}, rank)

\* ContactRepository.getAllContacts: SELECT * FROM contacts ORDER BY name ASC
rowsToContacts(ordered) == [i \in 1..Len(ordered) |-> rowToContact(ordered[i])]

selectAllByName(rows) == rowsToContacts(OrderRows(rows, [r \in rows |-> 0]))

\* selectAllByName tabulated over the directories of the model
AllContactsTable ==
    Tabulate([ids \in SUBSET ContactIds |-> selectAllByName(Rows(ids))])

\* ... and over the tables in which tags were written
EditedAllContactsTable ==
    Tabulate([rows \in EditedDirectories |-> selectAllByName(rows)])

getAllContacts(rows) ==
    IF rows \subseteq Catalogue THEN AllContactsTable[IdsOf(rows)]
    ELSE EditedAllContactsTable[rows]

\* ContactRepository.getContact: the contact of that id, or null
getContact(rows, id) ==
    IF \E r \in rows : r.id = id
    THEN rowToContact(CHOOSE r \in rows : r.id = id)
    ELSE NoContact

(***************************************************************************)
(* KeywordSearchService                                                    *)
(***************************************************************************)

OrEmpty(column) == IF column = Null THEN <<>> ELSE column

Min(a, b) == IF a < b THEN a ELSE b
Max(a, b) == IF a > b THEN a ELSE b

RECURSIVE SumSeq(_)
SumSeq(xs) == IF xs = <<>> THEN 0 ELSE Head(xs) + SumSeq(Tail(xs))

\* Credit one term adds in the scoring loop, and the number of fields it hit
TermCredit(name, email, phone, tags, term) ==
    LET lowerTerm == toLowerCase(term)
    IN  (IF includes(name, lowerTerm) THEN (IF name = lowerTerm THEN 900 ELSE 700) ELSE 0)
        + (IF includes(email, lowerTerm) THEN 400 ELSE 0)
        + (IF includes(phone, lowerTerm) THEN 500 ELSE 0)
        + (IF includes(tags, lowerTerm) THEN 300 ELSE 0)

TermMatches(name, email, phone, tags, term) ==
    LET lowerTerm == toLowerCase(term)
    IN  (IF includes(name, lowerTerm) THEN 1 ELSE 0)
        + (IF includes(email, lowerTerm) THEN 1 ELSE 0)
        + (IF includes(phone, lowerTerm) THEN 1 ELSE 0)
        + (IF includes(tags, lowerTerm) THEN 1 ELSE 0)

\* a scoring that takes every name containing all query words for a close match
calculateKeywordScoreLoose(row, searchTerms) ==
    LET name       == toLowerCase(OrEmpty(row.name))
        nameWords  == split(name)
        queryWords == [i \in 1..Len(searchTerms) |-> toLowerCase(searchTerms[i])]
    IN  IF name = toLowerCase(join(searchTerms, <<" ">>)) THEN 1000
        ELSE IF \A i \in 1..Len(queryWords) :
                    \E j \in 1..Len(nameWords) : includes(nameWords[j], queryWords[i])
        THEN 950
        ELSE 0

\* KeywordSearchService.calculateKeywordScore, in units of 1/1000.  The division
\* by (terms * 2) is exact for the one- and two-term queries of the model.
calculateKeywordScore(row, searchTerms) ==
    LET name  == toLowerCase(OrEmpty(row.name))
        email == toLowerCase(OrEmpty(row.email))
        phone == toLowerCase(OrEmpty(row.phone))
        tags  == toLowerCase(OrEmpty(row.tags))
        fullQuery  == toLowerCase(join(searchTerms, <<" ">>))
        nameWords  == split(name)
        queryWords == [i \in 1..Len(searchTerms) |-> toLowerCase(searchTerms[i])]
        allWordsInName ==
            \A i \in 1..Len(queryWords) :
                \E j \in 1..Len(nameWords) : includes(nameWords[j], queryWords[i])
        score == SumSeq([i \in 1..Len(searchTerms) |->
                            TermCredit(name, email, phone, tags, searchTerms[i])])
        totalMatches == SumSeq([i \in 1..Len(searchTerms) |->
                            TermMatches(name, email, phone, tags, searchTerms[i])])
    IN  IF name = fullQuery THEN 1000
        ELSE IF allWordsInName /\ Len(nameWords) = Len(queryWords) THEN 950
        ELSE IF totalMatches = 0 THEN 0
        ELSE Min(score \div (Len(searchTerms) * 2), 1000)

\* The matched field performSimpleSearch reports for a row
matchedFieldOf(row, searchTerms) ==
    IF row.email # Null /\ row.email # <<>>
       /\ includes(toLowerCase(row.email), toLowerCase(searchTerms[1]))
    THEN "email"
    ELSE IF row.phone # Null /\ row.phone # <<>> /\ includes(row.phone, searchTerms[1])
    THEN "phone"
    ELSE "name"

\* The CASE of the ORDER BY clause
LikeRank(row, term) ==
    IF Like(row.name, term) THEN 1
    ELSE IF Like(row.email, term) THEN 2
    ELSE IF Like(row.phone, term) THEN 3
    ELSE IF Like(row.tags, term) THEN 4
    ELSE 5

\* The SELECT of performSimpleSearch: WHERE ... ORDER BY CASE ..., name ASC LIMIT ?
\* the rows of the WHERE clause in the order of the ORDER BY clause
orderCandidates(hit, term) == OrderRows(hit, [r \in hit |-> LikeRank(r, term)])

\* the first rows of a row list (LIMIT ?)
limitRows(ordered, limit) == SubSeq(ordered, 1, Min(limit, Len(ordered)))

selectCandidates(rows, term, limit) ==
    limitRows(orderCandidates({r \in rows : \/ Like(r.name, term) \/ Like(r.email, term)
                                            \/ Like(r.phone, term) \/ Like(r.tags, term)},
                              term),
              limit)

\* KeywordSearchService.performSimpleSearch; dbFails: the SELECT throws, which the
\* method catches and answers with no results
\* results.map(...) of performSimpleSearch
toKeywordResults(results, searchTerms) ==
    [i \in 1..Len(results) |->
        [contactId    |-> results[i].id,
         score        |-> calculateKeywordScore(results[i], searchTerms),
         matchedField |-> matchedFieldOf(results[i], searchTerms)]]

\* performSimpleSearch after the split of the query
searchForTerms(rows, searchTerms, limit, dbFails) ==
    IF searchTerms = <<>> THEN <<>>
    ELSE IF dbFails THEN <<>>
    ELSE toKeywordResults(selectCandidates(rows, searchTerms[1], limit), searchTerms)

performSimpleSearch(rows, query, limit, dbFails) ==
    searchForTerms(rows, SelectNonEmpty(split(query)), limit, dbFails)

\* KeywordSearchService.search
keywordSearch(rows, query, limit, dbFails) ==
    IF trim(query) = <<>> THEN <<>>
    ELSE performSimpleSearch(rows, query, limit, dbFails)

\* keywordSearch tabulated over the directories, queries and limits of the model
KeywordTable ==
    Tabulate([ids \in SUBSET ContactIds, query \in Queries, limit \in MaxResultsChoices,
              dbFails \in BOOLEAN |-> keywordSearch(Rows(ids), query, limit, dbFails)])

\* the queries put to the tables in which tags were written, and their limit
ConversationQueries == {TxtPoet, TxtAda}
DefaultMaxResults == 25

\* ... and over the tables in which tags were written
EditedKeywordTable ==
    Tabulate([rows \in EditedDirectories, query \in ConversationQueries,
              dbFails \in BOOLEAN |->
                  keywordSearch(rows, query, DefaultMaxResults, dbFails)])

(***************************************************************************)
(* Embeddings, the provider and the embedding cache of AIService           *)
(***************************************************************************)

\* Length of the vector store's embeddings in the model (1536 in the code)
Dim == 2

UnitX    == [i \in 1..Dim |-> IF i = 1 THEN 10 ELSE 0]
UnitY    == [i \in 1..Dim |-> IF i = 2 THEN 10 ELSE 0]
WrongDim == [i \in 1..(Dim + 1) |-> IF i = 1 THEN 10 ELSE 0]

FailedOutcome == [ok |-> FALSE, vector |-> <<>>]

\* What one call of the embedding provider can answer for a query: a unit vector,
\* a vector of another length than the store's, or a failure
QueryOutcomes ==
    {[ok |-> TRUE, vector |-> v] : v \in {UnitX, WrongDim}} \cup {FailedOutcome}

\* ... and for the tag text of a contact: a unit vector along or across the
\* query's, or a failure
TagOutcomes ==
    {[ok |-> TRUE, vector |-> v] : v \in {UnitX, UnitY}} \cup {FailedOutcome}

CacheCapacity == 1000

\* a cached embedding generation that caches whatever the size of the cache
generateEmbeddingCachedUnbounded(c, text, provider) ==
    IF text \in DOMAIN c
    THEN [threw |-> FALSE, asked |-> FALSE, embedding |-> c[text], cache |-> c]
    ELSE IF ~provider.ok
    THEN [threw |-> TRUE, asked |-> TRUE, embedding |-> <<>>, cache |-> c]
    ELSE [threw |-> FALSE, asked |-> TRUE, embedding |-> provider.vector,
          cache |-> [t \in DOMAIN c \cup {text} |->
                        IF t = text THEN provider.vector ELSE c[t]]]

\* AIService.generateEmbeddingCached: the cached vector if there is one, else the
\* provider's answer, cached while the cache holds fewer than 1000 entries.
\* threw: the provider failed (generateEmbedding rethrows); asked: the provider
\* was called.
generateEmbeddingCached(c, text, provider) ==
    IF text \in DOMAIN c
    THEN [threw |-> FALSE, asked |-> FALSE, embedding |-> c[text], cache |-> c]
    ELSE IF ~provider.ok
    THEN [threw |-> TRUE, asked |-> TRUE, embedding |-> <<>>, cache |-> c]
    ELSE [threw |-> FALSE, asked |-> TRUE, embedding |-> provider.vector,
          cache |-> IF Cardinality(DOMAIN c) < CacheCapacity
                    THEN [t \in DOMAIN c \cup {text} |->
                             IF t = text THEN provider.vector ELSE c[t]]
                    ELSE c]

(***************************************************************************)
(* VectorStore (hybridSearchService.ts)                                    *)
(***************************************************************************)

\* Math.sqrt on the perfect squares the model's vectors give
Sqrt(n) == CHOOSE r \in 0..n : r * r = n

SumOfSquares(v) == SumSeq([i \in 1..Len(v) |-> v[i] * v[i]])

\* VectorStore.normalizeVector, components in units of 1/10
normalizeVector(v) ==
    LET norm == Sqrt(SumOfSquares(v))
    IN  IF norm = 0 THEN v ELSE [i \in 1..Len(v) |-> (v[i] * 10) \div norm]

\* VectorStore.cosineSimilarity: the dot product, in units of 1/100
cosineSimilarity(a, b) == SumSeq([i \in 1..Len(a) |-> a[i] * b[i]])

\* a descending sort that puts the later of two elements of equal key first
SortDescUnstable(xs, keys) ==
    LET n == Len(xs)
        pos(i) == 1 + Cardinality({j \in 1..n : keys[j] > keys[i]})
                    + Cardinality({j \in (i + 1)..n : keys[j] = keys[i]})
    IN  [p \in 1..n |-> xs[CHOOSE i \in 1..n : pos(i) = p]]

\* Array.prototype.sort with comparator (a, b) => keys[b] - keys[a]: descending,
\* stable (elements of equal key keep their order)
SortDescBy(xs, keys) ==
    LET n == Len(xs)
        pos(i) == 1 + Cardinality({j \in 1..n : keys[j] > keys[i]})
                    + Cardinality({j \in 1..(i - 1) : keys[j] = keys[i]})
    IN  [p \in 1..n |-> xs[CHOOSE i \in 1..n : pos(i) = p]]

\* Array.prototype.slice(0, k)
slice(xs, k) == SubSeq(xs, 1, Min(k, Len(xs)))

\* VectorStore.search(queryEmbedding, k)
vectorSearch(docs, dim, queryEmbedding, k) ==
    IF Len(docs) = 0 THEN [threw |-> FALSE, results |-> <<>>]
    ELSE IF Len(queryEmbedding) \notin dim THEN [threw |-> TRUE, results |-> <<>>]
    ELSE LET normalizedQuery == normalizeVector(queryEmbedding)
             similarities ==
                 [i \in 1..Len(docs) |->
                     [index |-> i,
                      similarity |-> cosineSimilarity(normalizedQuery, docs[i].embedding)]]
             sorted == SortDescBy(similarities,
                                  [i \in 1..Len(docs) |-> similarities[i].similarity])
             top == slice(sorted, k)
         IN  [threw |-> FALSE,
              results |-> [i \in 1..Len(top) |->
                              [contactId |-> docs[top[i].index].id,
                               score |-> top[i].similarity]]]

\* a batch insert that gives up when one document of the batch is invalid
addDocumentsAtomic(docs, dim, newDocs) ==
    IF \A i \in 1..Len(newDocs) :
           newDocs[i].embedding # Null /\ Len(newDocs[i].embedding) \in dim
    THEN docs \o newDocs
    ELSE docs

\* VectorStore.addDocuments: the documents after the push of the valid ones
addDocuments(docs, dim, newDocs) ==
    docs \o SelectSeq(newDocs, LAMBDA d : d.embedding # Null /\ Len(d.embedding) \in dim)

\* VectorStore.initialize: the documents and the dimension after it
storeInitialize(docs, dim) == [documents |-> <<>>, dimension |-> {Dim}]

\* a clear that forgets the dimension too
storeClearResets(docs, dim) == [documents |-> <<>>, dimension |-> {}]

\* a clear that keeps the documents
storeClearKeeps(docs, dim) == [documents |-> docs, dimension |-> dim]

\* VectorStore.clear
storeClear(docs, dim) == [documents |-> <<>>, dimension |-> dim]

\* an insert without the length check
addDocumentUnchecked(docs, dim, document) ==
    [threw |-> FALSE, documents |-> Append(docs, document), dimension |-> dim]

\* VectorStore.addDocument: a document without embedding fails at
\* document.embedding.length; the first insert into a store without dimension
\* sets the dimension
addDocument(docs, dim, document) ==
    IF document.embedding = Null
    THEN [threw |-> TRUE, documents |-> docs, dimension |-> dim]
    ELSE IF dim = {}
    THEN [threw |-> FALSE, documents |-> Append(docs, document),
          dimension |-> {Len(document.embedding)}]
    ELSE IF Len(document.embedding) \notin dim
    THEN [threw |-> TRUE, documents |-> docs, dimension |-> dim]
    ELSE [threw |-> FALSE, documents |-> Append(docs, document), dimension |-> dim]

\* a removal of every document of that id
removeDocumentAll(docs, documentId) ==
    [returned |-> \E i \in 1..Len(docs) : docs[i].id = documentId,
     documents |-> SelectSeq(docs, LAMBDA d : d.id # documentId)]

\* VectorStore.removeDocument: findIndex and splice(docIndex, 1)
removeDocument(docs, documentId) ==
    IF ~\E i \in 1..Len(docs) : docs[i].id = documentId
    THEN [returned |-> FALSE, documents |-> docs]
    ELSE LET splice(docIndex) ==
                 SubSeq(docs, 1, docIndex - 1) \o SubSeq(docs, docIndex + 1, Len(docs))
         IN  [returned |-> TRUE,
              documents |-> splice(CHOOSE i \in 1..Len(docs) :
                                       /\ docs[i].id = documentId
                                       /\ \A j \in 1..(i - 1) : docs[j].id # documentId)]

(***************************************************************************)
(* HybridSearchService                                                     *)
(***************************************************************************)

SemanticWeight == 7        \* DEFAULT_SEARCH_CONFIG.semanticWeight, in tenths
KeywordWeight  == 6        \* DEFAULT_SEARCH_CONFIG.keywordWeight, in tenths
NameOverrideThreshold == 800   \* result.score > 0.8, in units of 1/1000
NameOverrideFactor    == 3     \* keywordScore *= 3
FallbackScore  == 5000     \* score: 0.5, in units of 1/10000

Undefined == "undefined"

\* result.score * this.config.semanticWeight, in units of 1/10000
semanticContribution(sim) == sim * SemanticWeight * 10

\* the keywordScore of the merge loop, in units of 1/10000
overrides(k) == k.matchedField = "name" /\ k.score > NameOverrideThreshold

\* the keyword contribution without the name-match multiplier
keywordContributionPlain(k) == k.score * KeywordWeight

keywordContribution(k) ==
    IF overrides(k) THEN k.score * KeywordWeight * NameOverrideFactor
    ELSE k.score * KeywordWeight

\* Map.prototype.set on a map kept as the sequence of its values in insertion
\* order: an existing key keeps its place and takes the new value
mapSet(m, entry) ==
    IF \E i \in 1..Len(m) : m[i].contactId = entry.contactId
    THEN [i \in 1..Len(m) |-> IF m[i].contactId = entry.contactId THEN entry ELSE m[i]]
    ELSE Append(m, entry)

mapHas(m, id) == \E i \in 1..Len(m) : m[i].contactId = id
mapGet(m, id) == m[CHOOSE i \in 1..Len(m) : m[i].contactId = id]

RECURSIVE mergeSemantic(_, _)
mergeSemantic(m, semanticResults) ==
    IF semanticResults = <<>> THEN m
    ELSE LET r == Head(semanticResults)
         IN  mergeSemantic(
                 mapSet(m, [contactId |-> r.contactId, name |-> <<>>,
                            score |-> semanticContribution(r.score),
                            matchedField |-> Undefined]),
                 Tail(semanticResults))

\* a keyword loop that always overwrites the stored score
mergeOneKeywordReplaces(m, k) ==
    LET keywordScore == keywordContribution(k)
    IN  IF mapHas(m, k.contactId)
        THEN mapSet(m, [mapGet(m, k.contactId) EXCEPT !.score = keywordScore])
        ELSE Append(m, [contactId |-> k.contactId, name |-> <<>>,
                        score |-> keywordScore, matchedField |-> k.matchedField])

\* one pass of the keyword loop of mergeAndRankResults
mergeOneKeyword(m, k) ==
    LET keywordScore == keywordContribution(k)
    IN  IF mapHas(m, k.contactId)
        THEN LET existing == mapGet(m, k.contactId)
             IN  mapSet(m, [existing EXCEPT !.score =
                               IF overrides(k) THEN keywordScore
                               ELSE Max(existing.score, keywordScore)])
        ELSE Append(m, [contactId |-> k.contactId, name |-> <<>>,
                        score |-> keywordScore, matchedField |-> k.matchedField])

RECURSIVE mergeKeyword(_, _)
mergeKeyword(m, keywordResults) ==
    IF keywordResults = <<>> THEN m
    ELSE mergeKeyword(mergeOneKeyword(m, Head(keywordResults)), Tail(keywordResults))

\* HybridSearchService.mergeAndRankResults
mergeAndRankResults(semanticResults, keywordResults) ==
    mergeKeyword(mergeSemantic(<<>>, semanticResults), keywordResults)

\* contacts[i]?.name || ''
nameOrEmpty(contact) == IF contact = NoContact THEN <<>> ELSE contact.name

\* HybridSearchService.enrichResults (the getContact calls succeed)
enrichResults(rows, results) ==
    [i \in 1..Len(results) |->
        [results[i] EXCEPT !.name = nameOrEmpty(getContact(rows, results[i].contactId))]]

Scores(results) == [i \in 1..Len(results) |-> results[i].score]

\* the sort without the slice
rankWithoutCut(results, limit) == SortDescBy(results, Scores(results))

\* enrichedResults.sort((a, b) => b.score - a.score).slice(0, maxResults)
rankAndCut(results, limit) == slice(SortDescBy(results, Scores(results)), limit)

\* score of the last entry of that contact in a result list (Map.get after the
\* set loop), 0 when there is none
lastScoreOf(results, id) ==
    IF \E i \in 1..Len(results) : results[i].contactId = id
    THEN results[CHOOSE i \in 1..Len(results) :
                    /\ results[i].contactId = id
                    /\ \A j \in (i + 1)..Len(results) : results[j].contactId # id].score
    ELSE 0

lastFieldOf(keywordResults, id) ==
    IF \E i \in 1..Len(keywordResults) : keywordResults[i].contactId = id
    THEN keywordResults[CHOOSE i \in 1..Len(keywordResults) :
             /\ keywordResults[i].contactId = id
             /\ \A j \in (i + 1)..Len(keywordResults) :
                    keywordResults[j].contactId # id].matchedField
    ELSE Undefined

\* the rows search() stores in lastDebug
debugRows(enriched, semanticResults, keywordResults) ==
    LET sortByFinal(rows) == SortDescBy(rows, [i \in 1..Len(rows) |-> rows[i].final])
    IN  sortByFinal(
            [i \in 1..Len(enriched) |->
                [contactId    |-> enriched[i].contactId,
                 semantic     |-> lastScoreOf(semanticResults, enriched[i].contactId),
                 keyword      |-> lastScoreOf(keywordResults, enriched[i].contactId),
                 final        |-> enriched[i].score,
                 matchedField |-> lastFieldOf(keywordResults, enriched[i].contactId)]])

\* a semantic branch without its try/catch: a failure reaches the caller
performSemanticSearchUncaught(ready, docs, dim, c, query, limit, provider) ==
    IF ~ready THEN [threw |-> FALSE, failed |-> FALSE, results |-> <<>>, cache |-> c]
    ELSE LET e == generateEmbeddingCached(c, query, provider)
         IN  IF e.threw
             THEN [threw |-> TRUE, failed |-> TRUE, results |-> <<>>, cache |-> e.cache]
             ELSE LET found == vectorSearch(docs, dim, e.embedding, limit)
                  IN  [threw |-> found.threw, failed |-> found.threw,
                       results |-> IF found.threw THEN <<>> ELSE found.results,
                       cache |-> e.cache]

\* HybridSearchService.performSemanticSearch: every failure of the branch is
\* caught and answered with no results
performSemanticSearch(ready, docs, dim, c, query, limit, provider) ==
    IF ~ready THEN [threw |-> FALSE, failed |-> FALSE, results |-> <<>>, cache |-> c]
    ELSE LET answer(found, e) ==
                 [threw |-> FALSE, failed |-> found.threw,
                  results |-> IF found.threw THEN <<>> ELSE found.results,
                  cache |-> e.cache]
             withEmbedding(e) ==
                 IF e.threw
                 THEN [threw |-> FALSE, failed |-> TRUE, results |-> <<>>,
                       cache |-> e.cache]
                 ELSE answer(vectorSearch(docs, dim, e.embedding, limit), e)
         IN  withEmbedding(generateEmbeddingCached(c, query, provider))

\* HybridSearchService.performKeywordSearch
performKeywordSearch(rows, query, limit, dbFails) ==
    [threw |-> FALSE,
     results |-> IF rows \subseteq Catalogue /\ query \in Queries
                 THEN KeywordTable[IdsOf(rows), query, limit, dbFails]
                 ELSE EditedKeywordTable[rows, query, dbFails]]

\* (c.tags || []).join(' ').trim()
joinTags(contact) == trim(join(contact.tags, <<" ">>))

\* joinTags tabulated over the contacts of the model
TagTextTable == Tabulate([id \in ContactIds |-> joinTags(rowToContact(RowOf(id)))])

tagTextOf(contact) ==
    IF contact = ContactTable[contact.id] THEN TagTextTable[contact.id]
    ELSE joinTags(contact)

\* !query.trim(), tabulated over the queries of the model
BlankTable == Tabulate([query \in Queries \cup ConversationQueries |-> trim(query) = <<>>])

isBlank(query) == BlankTable[query]

\* What the collaborators do during one search(): the provider's answer to the
\* query (consulted only on a cache miss), whether the SELECT of the keyword
\* search and the getContact calls of the enrichment fail, and the same for the
\* second keyword search and the getContact calls of the catch branch.
SearchEnvs ==
    {e \in [provider : QueryOutcomes, kwDbFails : BOOLEAN, dirFails : BOOLEAN,
            kwDbFails2 : BOOLEAN, dirFails2 : BOOLEAN] :
        ~e.dirFails => (~e.kwDbFails2 /\ ~e.dirFails2)}

\* the provider is consulted by search() only for a query that is not cached
ConsultsProvider(ready, c, query) ==
    ready /\ ~isBlank(query) /\ query \notin DOMAIN c

\* a catch branch that keeps the weighted keyword scores
fallbackBodyKeywordScores(rows, query, limit, env) ==
    LET k2 == performKeywordSearch(rows, query, limit, env.kwDbFails2)
    IN  [threw |-> k2.threw \/ (Len(k2.results) > 0 /\ env.dirFails2),
         kw2 |-> k2.results,
         result |-> [i \in 1..Len(k2.results) |->
                        [contactId |-> k2.results[i].contactId,
                         name |-> nameOrEmpty(getContact(rows, k2.results[i].contactId)),
                         score |-> k2.results[i].score * KeywordWeight,
                         matchedField |-> Undefined]]]

\* the body of the inner try of the catch branch of search(): keyword results
\* again, each contact that exists with the placeholder score
fallbackBody(rows, query, limit, env) ==
    LET placeholders(valid) ==
            [i \in 1..Len(valid) |->
                [contactId |-> valid[i].id, name |-> valid[i].name,
                 score |-> FallbackScore, matchedField |-> Undefined]]
        existing(keywordResults) ==
            SelectSeq([i \in 1..Len(keywordResults) |->
                          getContact(rows, keywordResults[i].contactId)],
                      LAMBDA c : c # NoContact)
        body(k2) ==
            [threw |-> k2.threw \/ (Len(k2.results) > 0 /\ env.dirFails2),
             kw2 |-> k2.results,
             result |-> placeholders(existing(k2.results))]
    IN  body(performKeywordSearch(rows, query, limit, env.kwDbFails2))

\* a catch branch without the inner try: its failure reaches the caller
searchFallbackRethrows(rows, query, limit, env) ==
    LET body == fallbackBody(rows, query, limit, env)
    IN  IF body.threw
        THEN [raised |-> TRUE, path |-> "raised", result |-> <<>>, kw2 |-> body.kw2]
        ELSE [raised |-> FALSE, path |-> "fallback", result |-> body.result,
              kw2 |-> body.kw2]

\* the catch branch of search(): any failure of the inner try gives the empty list
searchFallback(rows, query, limit, env) ==
    LET answer(body) ==
            IF body.threw
            THEN [raised |-> FALSE, path |-> "empty", result |-> <<>>, kw2 |-> body.kw2]
            ELSE [raised |-> FALSE, path |-> "fallback", result |-> body.result,
                  kw2 |-> body.kw2]
    IN  answer(fallbackBody(rows, query, limit, env))

\* search() after the await of Promise.all: s and k are what the semantic and the
\* keyword branch answered
afterSubsearches(rows, limit, query, env, s0, k0) ==
    LET returned(s, k, enriched) ==
            [raised |-> FALSE, path |-> "fused",
             result |-> rankAndCut(enriched, limit),
             lastDebug |-> debugRows(enriched, s.results, k.results),
             cache |-> s.cache, semFailed |-> s.failed,
             kwFailed |-> env.kwDbFails, enrichThrew |-> FALSE,
             sem |-> s.results, kw |-> k.results, kw2 |-> <<>>]
        caught(s, k, enrichThrew, fb) ==
            [raised |-> fb.raised, path |-> fb.path, result |-> fb.result,
             lastDebug |-> <<>>,
             cache |-> s.cache, semFailed |-> s.failed,
             kwFailed |-> env.kwDbFails, enrichThrew |-> enrichThrew,
             sem |-> s.results, kw |-> k.results, kw2 |-> fb.kw2]
        tried(s, k, merged, enrichThrew) ==
            IF s.threw \/ k.threw \/ enrichThrew
            THEN caught(s, k, enrichThrew, searchFallback(rows, query, limit, env))
            ELSE returned(s, k, enrichResults(rows, merged))
        merge(s, k, merged) == tried(s, k, merged, Len(merged) > 0 /\ env.dirFails)
        branches(s, k) == merge(s, k, mergeAndRankResults(s.results, k.results))
    IN  branches(s0, k0)

\* HybridSearchService.search(query): what it returns (or that it raised), what it
\* leaves in lastDebug and in the embedding cache, and the way it took:
\*   "blank"     the query was blank
\*   "fused"     the try block returned
\*   "fallback"  the catch block returned the keyword-only list
\*   "empty"     the catch block's own try failed
search(rows, ready, docs, dim, c, limit, query, env) ==
    IF isBlank(query)
    THEN [raised |-> FALSE, path |-> "blank", result |-> <<>>, lastDebug |-> <<>>,
          cache |-> c, semFailed |-> FALSE, kwFailed |-> FALSE, enrichThrew |-> FALSE,
          sem |-> <<>>, kw |-> <<>>, kw2 |-> <<>>]
    ELSE afterSubsearches(rows, limit, query, env,
                          performSemanticSearch(ready, docs, dim, c, query, limit,
                                                env.provider),
                          performKeywordSearch(rows, query, limit, env.kwDbFails))

\* What the collaborators do during one searchTagsOnly(): the provider's answer
\* to the query and whether the getContact calls fail
TagSearchEnvs == [provider : QueryOutcomes, dirFails : BOOLEAN]

\* HybridSearchService.searchTagsOnly(query): what it returns (or that it raised,
\* no try block surrounds the getContact calls), what it leaves in lastDebug
\* (debug: lastDebug before the call) and in the embedding cache.  The debug rows
\* take semantic = score / semanticWeight, the similarity again up to rounding.
searchTagsOnly(rows, ready, docs, dim, c, limit, query, env, debug) ==
    IF isBlank(query)
    THEN [raised |-> FALSE, result |-> <<>>, lastDebug |-> <<>>, cache |-> c,
          sem |-> <<>>]
    ELSE LET enrich(semanticResults) ==
                 [i \in 1..Len(semanticResults) |->
                     [contactId |-> semanticResults[i].contactId,
                      name |-> nameOrEmpty(getContact(rows, semanticResults[i].contactId)),
                      score |-> semanticContribution(semanticResults[i].score),
                      matchedField |-> Undefined]]
             debugOf(enriched) ==
                 [i \in 1..Len(enriched) |->
                     [contactId |-> enriched[i].contactId,
                      semantic |-> enriched[i].score \div (SemanticWeight * 10),
                      keyword |-> 0,
                      final |-> enriched[i].score,
                      matchedField |-> Undefined]]
             returned(s, enriched) ==
                 [raised |-> FALSE, result |-> rankAndCut(enriched, limit),
                  lastDebug |-> debugOf(enriched), cache |-> s.cache, sem |-> s.results]
             answered(s) ==
                 IF Len(s.results) > 0 /\ env.dirFails
                 THEN [raised |-> TRUE, result |-> <<>>, lastDebug |-> debug,
                       cache |-> s.cache, sem |-> s.results]
                 ELSE returned(s, enrich(s.results))
         IN  answered(performSemanticSearch(ready, docs, dim, c, query, limit,
                                            env.provider))

\* the for loop of buildVectorIndex: resp[id] is the provider's answer for the
\* tag text of contact id; the first failure leaves the loop by the exception
RECURSIVE buildLoop(_, _, _, _)
buildLoop(cs, c, acc, resp) ==
    IF cs = <<>>
    THEN [threw |-> FALSE, failedAt |-> "none", documents |-> acc, cache |-> c]
    ELSE LET push(contact, e) ==
                 IF e.threw
                 THEN [threw |-> TRUE, failedAt |-> contact.id, documents |-> acc,
                       cache |-> e.cache]
                 ELSE buildLoop(Tail(cs), e.cache,
                                Append(acc, [id |-> contact.id, embedding |-> e.embedding]),
                                resp)
             step(contact, tagText) ==
                 IF tagText = <<>> THEN buildLoop(Tail(cs), c, acc, resp)
                 ELSE push(contact,
                           generateEmbeddingCached(c, TxtTagsPrefix \o tagText,
                               IF contact.id \in DOMAIN resp THEN resp[contact.id]
                               ELSE FailedOutcome))
         IN  step(Head(cs), tagTextOf(Head(cs)))

\* HybridSearchService.buildVectorIndex: the store's documents and the cache after
\* it. ran: there is a vector store; listed: getAllContacts answered; failedAt:
\* the contact whose embedding failed, or "none"; embedded: the contacts whose
\* embedding was obtained. An exception leaves the store as clear() left it.
buildVectorIndex(rows, ready, docs, dim, c, resp, dbFails) ==
    IF ~ready
    THEN [documents |-> docs, cache |-> c, ran |-> FALSE, listed |-> FALSE,
          failedAt |-> "none", embedded |-> {}]
    ELSE LET done(cleared, built) ==
                 [documents |-> IF built.threw THEN cleared
                                ELSE addDocuments(cleared, dim, built.documents),
                  cache |-> built.cache, ran |-> TRUE, listed |-> TRUE,
                  failedAt |-> built.failedAt,
                  embedded |-> {built.documents[i].id : i \in 1..Len(built.documents)}]
             listing(cleared) ==
                 IF dbFails
                 THEN [documents |-> cleared, cache |-> c, ran |-> TRUE,
                       listed |-> FALSE, failedAt |-> "none", embedded |-> {}]
                 ELSE done(cleared, buildLoop(getAllContacts(rows), c, <<>>, resp))
         IN  listing(storeClear(docs, dim).documents)

\* what a rebuild leaves to observe
rebuildCall(by, b) ==
    [op |-> "rebuild", by |-> by, ran |-> b.ran, listed |-> b.listed,
     failedAt |-> b.failedAt, embedded |-> b.embedded]

\* the contacts whose tag text the provider is asked about by a rebuild
NeedsProvider(rows, c) ==
    LET asked(tagText) == tagText # <<>> /\ (TxtTagsPrefix \o tagText) \notin DOMAIN c
    IN  {r.id : r \in {x \in rows : asked(tagTextOf(rowToContact(x)))}}

(***************************************************************************)
(* State machine of the service                                            *)
(***************************************************************************)

NoCall == [op |-> "none"]
NoMerge == [op |-> "none"]
EmptyCache == [t \in {} |-> <<>>]

Init ==
    /\ contacts \in SUBSET SearchIds
    /\ maxResults \in MaxResultsChoices
    /\ vsReady = FALSE
    /\ documents = <<>>
    /\ dimension = {}
    /\ cache = EmptyCache
    /\ lastDebug = <<>>
    /\ call = NoCall
    /\ mIn = NoMerge
    /\ mOut = NoMerge
    /\ tasks = NoTasks
    /\ conversations = {}
    /\ tagEdits = NoEdits

\* the contacts table of the state
ContactsTable == Directory(contacts, tagEdits)

\* ContactService.createContact
CreateContact(row) ==
    /\ row.id \notin contacts
    /\ contacts' = contacts \cup {row.id}
    /\ call' = NoCall
    /\ UNCHANGED <<maxResults, vsReady, documents, dimension, cache, lastDebug, mIn, mOut,
                   tasks, conversations, tagEdits>>

\* ContactService.deleteContact
DeleteContact(id) ==
    /\ id \in contacts
    /\ contacts' = contacts \ {id}
    /\ call' = NoCall
    /\ UNCHANGED <<maxResults, vsReady, documents, dimension, cache, lastDebug, mIn, mOut,
                   tasks, conversations, tagEdits>>

\* HybridSearchService.initialize
Initialize(resp, dbFails) ==
    \E b \in {buildVectorIndex(ContactsTable, TRUE, <<>>, {Dim}, cache, resp, dbFails)} :
        /\ vsReady' = TRUE
        /\ dimension' = {Dim}
        /\ documents' = b.documents
        /\ cache' = b.cache
        /\ call' = rebuildCall("initialize", b)
        /\ UNCHANGED <<contacts, maxResults, lastDebug, mIn, mOut,
                   tasks, conversations, tagEdits>>

\* HybridSearchService.rebuildTagIndex
RebuildTagIndex(resp, dbFails) ==
    \E b \in {buildVectorIndex(Rows(contacts), vsReady, documents, dimension, cache,
                                resp, dbFails)} :
        /\ documents' = b.documents
        /\ cache' = b.cache
        /\ call' = rebuildCall("rebuildTagIndex", b)
        /\ UNCHANGED <<contacts, maxResults, vsReady, dimension, lastDebug, mIn, mOut,
                   tasks, conversations, tagEdits>>

\* HybridSearchService.updateContact: the keyword index has nothing to update;
\* the tag index is rebuilt when the updates carry tags
UpdateContact(tagsPresent, resp, dbFails) ==
    \E b \in {buildVectorIndex(Rows(contacts), vsReady, documents, dimension, cache,
                                resp, dbFails)} :
        /\ documents' = IF tagsPresent THEN b.documents ELSE documents
        /\ cache' = IF tagsPresent THEN b.cache ELSE cache
        /\ call' = IF tagsPresent THEN rebuildCall("updateContact", b)
                    ELSE [op |-> "updateContact"]
        /\ UNCHANGED <<contacts, maxResults, vsReady, dimension, lastDebug, mIn, mOut,
                   tasks, conversations, tagEdits>>

\* HybridSearchService.search
Search(query, env) ==
    \E r \in {search(ContactsTable, vsReady, documents, dimension, cache, maxResults,
                      query, env)} :
        /\ lastDebug' = r.lastDebug
        /\ cache' = r.cache
        /\ call' = [op |-> "search", query |-> query, raised |-> r.raised,
                    path |-> r.path, semFailed |-> r.semFailed,
                    kwFailed |-> r.kwFailed, enrichThrew |-> r.enrichThrew,
                    sem |-> r.sem, kw |-> r.kw, kw2 |-> r.kw2, result |-> r.result]
        /\ UNCHANGED <<contacts, maxResults, vsReady, documents, dimension, mIn, mOut,
                   tasks, conversations, tagEdits>>

\* HybridSearchService.searchTagsOnly
SearchTagsOnly(query, env) ==
    \E r \in {searchTagsOnly(Rows(contacts), vsReady, documents, dimension, cache,
                              maxResults, query, env, lastDebug)} :
        /\ lastDebug' = r.lastDebug
        /\ cache' = r.cache
        /\ call' = [op |-> "searchTagsOnly", query |-> query, raised |-> r.raised,
                    sem |-> r.sem, result |-> r.result]
        /\ UNCHANGED <<contacts, maxResults, vsReady, documents, dimension, mIn, mOut,
                   tasks, conversations, tagEdits>>

Next ==
    \/ \E row \in {r \in Catalogue : r.id \in SearchIds} : CreateContact(row)
    \/ \E id \in SearchIds : DeleteContact(id)
    \/ \E resp \in [NeedsProvider(Rows(contacts), cache) -> TagOutcomes], dbFails \in BOOLEAN :
           Initialize(resp, dbFails)
    \/ \E resp \in [NeedsProvider(Rows(contacts), cache) -> TagOutcomes], dbFails \in BOOLEAN :
           RebuildTagIndex(resp, dbFails)
    \/ \E query \in Queries, env \in SearchEnvs :
           /\ ConsultsProvider(vsReady, cache, query) \/ env.provider = FailedOutcome
           /\ Search(query, env)
    \/ \E query \in Queries, env \in TagSearchEnvs :
           /\ ConsultsProvider(vsReady, cache, query) \/ env.provider = FailedOutcome
           /\ SearchTagsOnly(query, env)

Spec == Init /\ [][Next]_vars

(***************************************************************************)
(* mergeAndRankResults on arbitrary result lists                           *)
(***************************************************************************)

MaxSem == 2     \* longest semantic result list
MaxKw  == 2     \* longest keyword result list

MergeIds  == {"c1", "c2"}
\* similarities in units of 1/100; documents are stored as given, so the dot
\* product with a document that is no unit vector can exceed 1
SemScores == {60, 100, 300}
\* keyword scores in units of 1/1000
KwScores  == {350, 900, 1000}
KwFields  == {"name", "email"}
MergeLimits == {1, 25}

SeqsUpTo(S, n) == UNION {[1..k -> S] : k \in 0..n}

\* what VectorStore.search can hand over: one entry per document, and two
\* documents may carry the same contact id
SemanticLists == SeqsUpTo([contactId : MergeIds, score : SemScores], MaxSem)

\* what the keyword search can hand over: one entry per row of the table
KeywordLists ==
    {ks \in SeqsUpTo([contactId : MergeIds, score : KwScores, matchedField : KwFields],
                     MaxKw) :
        \A i, j \in 1..Len(ks) : ks[i].contactId = ks[j].contactId => i = j}

InitMerge ==
    /\ contacts = {}
    /\ maxResults \in MergeLimits
    /\ vsReady = FALSE
    /\ documents = <<>>
    /\ dimension = {}
    /\ cache = EmptyCache
    /\ lastDebug = <<>>
    /\ call = NoCall
    /\ mIn \in [sem : SemanticLists, kw : KeywordLists]
    /\ mOut = NoMerge
    /\ tasks = NoTasks
    /\ conversations = {}
    /\ tagEdits = NoEdits

\* the fusion steps of search() on the lists of mIn: merge, enrich, sort, cut
MergeAndRank ==
    /\ mOut = NoMerge
    /\ \E m \in {mergeAndRankResults(mIn.sem, mIn.kw)} :
           mOut' = [op |-> "merge", merged |-> m,
                    returned |-> rankAndCut(enrichResults(Rows(contacts), m), maxResults)]
    /\ UNCHANGED <<contacts, maxResults, vsReady, documents, dimension, cache,
                   lastDebug, call, mIn, tasks, conversations, tagEdits>>

NextMerge == MergeAndRank

SpecMerge == InitMerge /\ [][NextMerge]_vars

(***************************************************************************)
(* Properties                                                              *)
(***************************************************************************)

IsList(xs) == DOMAIN xs = 1..Len(xs)
IdsIn(results) == {results[i].contactId : i \in 1..Len(results)}
EntriesOf(results, id) == {i \in 1..Len(results) : results[i].contactId = id}

\* C1: search(query) never raises to its caller: whatever the query and whichever
\* of the embedding provider, the vector index, the keyword index and the
\* contact directory fail, the call returns a list of results.
SearchNeverRaises ==
    call.op = "search" =>
        /\ ~call.raised
        /\ call.path \in {"blank", "fused", "fallback", "empty"}
        /\ IsList(call.result)

\* a search in which the semantic branch failed, the enrichment failed and the
\* catch branch failed too
SearchWithEverythingFailing ==
    /\ call.op = "search"
    /\ call.semFailed
    /\ call.enrichThrew
    /\ call.path = "empty"
    /\ call.result = <<>>

\* the list the try block of search() returns for the given branch results
FusedFrom(sem, kw) ==
    rankAndCut(enrichResults(Rows(contacts), mergeAndRankResults(sem, kw)), maxResults)

\* C2: a failure of the semantic branch or of the keyword branch is soft: the
\* call does not go to the placeholder fallback because of it, and what the try
\* block returns is the fusion of the other branch's results alone.
SubSearchFailureIsSoft ==
    call.op = "search" =>
        /\ call.semFailed =>
              /\ call.sem = <<>>
              /\ ~call.enrichThrew => call.path = "fused"
              /\ call.path = "fused" => call.result = FusedFrom(<<>>, call.kw)
        /\ call.kwFailed =>
              /\ call.kw = <<>>
              /\ ~call.enrichThrew => call.path = "fused"
              /\ call.path = "fused" => call.result = FusedFrom(call.sem, <<>>)

\* the semantic branch failed and the call returned the keyword matches, fused
SemanticFailedKeywordAnswered ==
    /\ call.op = "search"
    /\ call.semFailed
    /\ ~call.kwFailed
    /\ call.path = "fused"
    /\ Len(call.result) >= 2
    /\ \E i \in 1..Len(call.result) : call.result[i].score # 5000

\* C3: when the fusion pipeline throws, search returns the keyword-only results
\* of the query, every one with score 0.5, and empties the debug trace; when the
\* fallback throws as well, it returns the empty list.
FallbackIsKeywordOnly ==
    call.op = "search" =>
        /\ call.path = "fallback" =>
              /\ lastDebug = <<>>
              /\ call.kw2 \in {<<>>, KeywordTable[contacts, call.query, maxResults, FALSE]}
              /\ Len(call.result) = Len(call.kw2)
              /\ \A i \in 1..Len(call.result) :
                    /\ call.result[i].contactId = call.kw2[i].contactId
                    /\ call.result[i].score = 5000
        /\ call.path = "empty" => (call.result = <<>> /\ lastDebug = <<>>)

\* the enrichment failed and the fallback returned two keyword matches, although
\* the semantic branch had results
FallbackTaken ==
    /\ call.op = "search"
    /\ call.enrichThrew
    /\ call.path = "fallback"
    /\ Len(call.sem) > 0
    /\ Len(call.result) >= 2

\* C4: every result search returns has a score within [0, 1] (0..10000 in the
\* model's units), the results with the name-match multiplier included.
ScoresWithinUnitInterval ==
    call.op = "search" =>
        \A i \in 1..Len(call.result) :
            call.result[i].score >= 0 /\ call.result[i].score <= 10000

FusedScoreIsMax ==
    mOut.op = "merge" =>
        \A id \in MergeIds :
            LET ss == EntriesOf(mIn.sem, id)
                ks == EntriesOf(mIn.kw, id)
                ms == EntriesOf(mOut.merged, id)
                qualifies(k) == k.matchedField = "name" /\ k.score > 800
            IN  /\ (ss # {} \/ ks # {}) => Cardinality(ms) = 1
                /\ (Cardinality(ss) = 1 /\ ks # {}) =>
                       \A i \in ss, j \in ks, m \in ms :
                           ~qualifies(mIn.kw[j]) =>
                               mOut.merged[m].score =
                                   Max(mIn.sem[i].score * SemanticWeight * 10,
                                       mIn.kw[j].score * KeywordWeight)
                /\ (Cardinality(ss) = 1 /\ ks = {}) =>
                       \A i \in ss, m \in ms :
                           mOut.merged[m].score = mIn.sem[i].score * SemanticWeight * 10
                /\ (ss = {} /\ ks # {}) =>
                       \A j \in ks, m \in ms :
                           mOut.merged[m].score =
                               IF qualifies(mIn.kw[j])
                               THEN mIn.kw[j].score * KeywordWeight * 3
                               ELSE mIn.kw[j].score * KeywordWeight

\* an e-mail match of 0.9 (0.54 weighted) met a similarity of 1.0 (0.70
\* weighted) for the same contact, which was returned with 0.70
SemanticWinsOverKeyword ==
    /\ mOut.op = "merge"
    /\ \E i \in 1..Len(mIn.kw), r \in 1..Len(mOut.returned) :
           /\ mIn.kw[i].matchedField = "email" /\ mIn.kw[i].score = 900
           /\ Cardinality(EntriesOf(mIn.sem, mIn.kw[i].contactId)) = 1
           /\ \A j \in EntriesOf(mIn.sem, mIn.kw[i].contactId) : mIn.sem[j].score = 100
           /\ mOut.returned[r].contactId = mIn.kw[i].contactId
           /\ mOut.returned[r].score = 7000

\* C7: the list search returns holds each contactId at most once, is sorted by
\* score in non-increasing order and has at most maxResults entries.
ResultIsRankedAndCut ==
    call.op = "search" =>
        /\ \A i, j \in 1..Len(call.result) :
               call.result[i].contactId = call.result[j].contactId => i = j
        /\ \A i \in 1..(Len(call.result) - 1) :
               call.result[i].score >= call.result[i + 1].score
        /\ Len(call.result) <= maxResults

\* three contacts were found, one of them by both branches, and the two best
\* were returned
ThreeFoundTwoReturned ==
    /\ call.op = "search"
    /\ call.path = "fused"
    /\ maxResults = 2
    /\ Cardinality(IdsIn(call.sem) \cup IdsIn(call.kw)) = 3
    /\ IdsIn(call.sem) \cap IdsIn(call.kw) # {}
    /\ Len(call.result) = 2
    /\ call.result[1].score > call.result[2].score

\* Scenario A: the directory holds c1 ("Ada Lovelace", tags ["mathematician"])
\* alone, the index holds no document of another contact, the query is "Ada",
\* and neither the keyword search nor the directory failed
ScenarioA ==
    /\ call.op = "search"
    /\ call.query = TxtAda
    /\ contacts = {"c1"}
    /\ \A i \in 1..Len(documents) : documents[i].id = "c1"
    /\ call.path = "fused"
    /\ ~call.kwFailed

SemanticThreshold == 60     \* semanticThreshold: 0.6, in units of 1/100

NoFieldContains(row, query) ==
    \A f \in {row.name, row.email, row.phone, row.tags} :
        f = Null \/ ~includes(toLowerCase(f), toLowerCase(trim(query)))

\* C9: with a non-empty directory and a non-empty vector index, a query that is
\* a substring of no contact field and whose embedding is close to no stored
\* embedding makes search return the empty list, and no error.
NoMatchReturnsEmpty ==
    ( /\ call.op = "search"
      /\ ~isBlank(call.query)
      /\ contacts # {}
      /\ documents # <<>>
      /\ \A id \in contacts : NoFieldContains(RowOf(id), call.query)
      /\ \A i \in 1..Len(call.sem) : call.sem[i].score < SemanticThreshold )
    => (call.result = <<>> /\ ~call.raised)

\* C10: a contact whose full name equals the full query, case-insensitively,
\* receives keyword score 1.0, is returned, and is ranked above every contact
\* that matches the query only partially.
ExactNameMatchRanksFirst ==
    (call.op = "search" /\ call.path = "fused" /\ ~call.kwFailed) =>
        \A e \in contacts :
            toLowerCase(RowOf(e).name) = toLowerCase(trim(call.query)) =>
                /\ \E i \in 1..Len(call.kw) :
                       call.kw[i].contactId = e /\ call.kw[i].score = 1000
                /\ \E i \in 1..Len(call.result) :
                       /\ call.result[i].contactId = e
                       /\ \A j \in 1..Len(call.result) :
                              ( /\ call.result[j].contactId \in IdsIn(call.kw) \ {e}
                                /\ toLowerCase(RowOf(call.result[j].contactId).name)
                                       # toLowerCase(trim(call.query)) )
                              => i < j

(***************************************************************************)
(* KeywordSearchService.search on the directories and queries of the model *)
(***************************************************************************)

KeywordQueries ==
    {TxtAda, TxtAdaLovelace, TxtAi, Txt555, TxtX, TxtXyz, TxtBlank, TxtAUnderscoreA}

InitKeyword ==
    /\ contacts \in SUBSET ContactIds
    /\ maxResults \in MaxResultsChoices
    /\ vsReady = FALSE
    /\ documents = <<>>
    /\ dimension = {}
    /\ cache = EmptyCache
    /\ lastDebug = <<>>
    /\ call = NoCall
    /\ mIn = NoMerge
    /\ mOut = NoMerge
    /\ tasks = NoTasks
    /\ conversations = {}
    /\ tagEdits = NoEdits

\* KeywordSearchService.search(query, limit)
KeywordSearch(query, dbFails) ==
    /\ call' = [op |-> "keywordSearch", query |-> query, dbFails |-> dbFails,
                result |-> keywordSearch(Rows(contacts), query, maxResults, dbFails)]
    /\ UNCHANGED <<contacts, maxResults, vsReady, documents, dimension, cache,
                   lastDebug, mIn, mOut,
                   tasks, conversations, tagEdits>>

NextKeyword == \E query \in KeywordQueries, dbFails \in BOOLEAN : KeywordSearch(query, dbFails)

SpecKeyword == InitKeyword /\ [][NextKeyword]_vars

\* a query term is contained in the column, case-insensitively
ColumnMatches(column, query) ==
    /\ column # Null
    /\ \E t \in {SelectNonEmpty(split(query))[i] :
                    i \in 1..Len(SelectNonEmpty(split(query)))} :
           includes(toLowerCase(column), toLowerCase(t))

\* C11: the matchedField of a keyword result is the highest-priority field in
\* which a query term matched, with priority name > email > phone > tags.
MatchedFieldIsHighestPriority ==
    call.op = "keywordSearch" =>
        \A i \in 1..Len(call.result) :
            call.result[i].matchedField =
                IF ColumnMatches(RowOf(call.result[i].contactId).name, call.query)
                THEN "name"
                ELSE IF ColumnMatches(RowOf(call.result[i].contactId).email, call.query)
                THEN "email"
                ELSE IF ColumnMatches(RowOf(call.result[i].contactId).phone, call.query)
                THEN "phone"
                ELSE "tags"

\* C12: searchTagsOnly returns, for each semantic hit, the score
\* semanticScore * semanticWeight, and every returned entry has a semantic score
\* at or above semanticThreshold.
TagsOnlyAboveThreshold ==
    (call.op = "searchTagsOnly" /\ ~call.raised) =>
        \A i \in 1..Len(call.result) :
            \E j \in 1..Len(call.sem) :
                /\ call.sem[j].contactId = call.result[i].contactId
                /\ call.result[i].score = call.sem[j].score * SemanticWeight * 10
                /\ call.sem[j].score >= SemanticThreshold

(***************************************************************************)
(* The VectorStore alone: any sequence of its operations                   *)
(***************************************************************************)

MaxDocs  == 3     \* most documents the store holds
MaxBatch == 2     \* longest batch handed to addDocuments

\* a vector of length Dim and norm 1 that is along neither axis
Diag   == [i \in 1..Dim |-> IF i = 1 THEN 6 ELSE IF i = 2 THEN 8 ELSE 0]
\* a vector along the first axis that is not normalised
Scaled == [i \in 1..Dim |-> IF i = 1 THEN 20 ELSE 0]

StoreIds == {"c1", "c2"}
\* the documents handed to the store: of the length the service configures, of
\* another length, and without embedding
StoreDocuments == [id : StoreIds, embedding : {UnitX, Diag, WrongDim, Null}]
StoreQueries   == {UnitX, UnitY, Scaled, WrongDim}
StoreKs        == {0, 1, 2}

InitStore ==
    /\ contacts = {}
    /\ maxResults = 25
    /\ vsReady = TRUE
    /\ documents = <<>>
    /\ dimension = {}
    /\ cache = EmptyCache
    /\ lastDebug = <<>>
    /\ call = NoCall
    /\ mIn = NoMerge
    /\ mOut = NoMerge
    /\ tasks = NoTasks
    /\ conversations = {}
    /\ tagEdits = NoEdits

StoreUnchanged == UNCHANGED <<contacts, maxResults, vsReady, cache, lastDebug, mIn, mOut,
                   tasks, conversations, tagEdits>>

\* VectorStore.initialize
StoreInitialize ==
    /\ documents' = storeInitialize(documents, dimension).documents
    /\ dimension' = storeInitialize(documents, dimension).dimension
    /\ call' = [op |-> "initialize"]
    /\ StoreUnchanged

\* VectorStore.clear
StoreClear ==
    /\ documents' = storeClear(documents, dimension).documents
    /\ dimension' = storeClear(documents, dimension).dimension
    /\ call' = [op |-> "clear"]
    /\ StoreUnchanged

\* VectorStore.addDocument
StoreAddDocument(document) ==
    /\ Len(documents) < MaxDocs
    /\ \E r \in {addDocument(documents, dimension, document)} :
           /\ documents' = r.documents
           /\ dimension' = r.dimension
           /\ call' = [op |-> "addDocument", document |-> document, threw |-> r.threw]
    /\ StoreUnchanged

\* VectorStore.addDocuments
StoreAddDocuments(batch) ==
    /\ Len(documents) + Len(batch) <= MaxDocs
    /\ documents' = addDocuments(documents, dimension, batch)
    /\ call' = [op |-> "addDocuments", batch |-> batch]
    /\ UNCHANGED dimension
    /\ StoreUnchanged

\* VectorStore.search
StoreSearch(queryEmbedding, k) ==
    /\ \E r \in {vectorSearch(documents, dimension, queryEmbedding, k)} :
           call' = [op |-> "vectorSearch", query |-> queryEmbedding, k |-> k,
                    threw |-> r.threw, results |-> r.results]
    /\ UNCHANGED <<documents, dimension>>
    /\ StoreUnchanged

\* VectorStore.removeDocument
StoreRemoveDocument(documentId) ==
    /\ \E r \in {removeDocument(documents, documentId)} :
           /\ documents' = r.documents
           /\ call' = [op |-> "removeDocument", id |-> documentId,
                       returned |-> r.returned]
    /\ UNCHANGED dimension
    /\ StoreUnchanged

NextStore ==
    \/ StoreInitialize
    \/ StoreClear
    \/ \E document \in StoreDocuments : StoreAddDocument(document)
    \/ \E batch \in SeqsUpTo(StoreDocuments, MaxBatch) : StoreAddDocuments(batch)
    \/ \E queryEmbedding \in StoreQueries, k \in StoreKs : StoreSearch(queryEmbedding, k)
    \/ \E documentId \in StoreIds : StoreRemoveDocument(documentId)

SpecStore == InitStore /\ [][NextStore]_vars

\* the similarity VectorStore.search gives the i-th stored document
SimilarityOf(queryEmbedding, i) ==
    cosineSimilarity(normalizeVector(queryEmbedding), documents[i].embedding)

\* the i-th stored document ranks before the j-th one: higher similarity, or the
\* same similarity and inserted earlier
RanksBefore(queryEmbedding, i, j) ==
    \/ SimilarityOf(queryEmbedding, i) > SimilarityOf(queryEmbedding, j)
    \/ /\ SimilarityOf(queryEmbedding, i) = SimilarityOf(queryEmbedding, j)
       /\ i < j

\* C13: a search of k >= 0 on a populated index with a query of the index's
\* dimension returns min(k, n) results; they are the k documents of highest
\* similarity, in non-increasing order of similarity, and documents of equal
\* similarity come in insertion order
SearchReturnsTopK ==
    (call.op = "vectorSearch" /\ ~call.threw /\ documents # <<>>) =>
        /\ Len(call.results) = Min(call.k, Len(documents))
        /\ \E idx \in [1..Len(call.results) -> 1..Len(documents)] :
              /\ \A p \in 1..Len(call.results) :
                     call.results[p] =
                         [contactId |-> documents[idx[p]].id,
                          score |-> SimilarityOf(call.query, idx[p])]
              /\ \A p, q \in 1..Len(call.results) :
                     p < q => RanksBefore(call.query, idx[p], idx[q])
              /\ \A i \in 1..Len(documents) :
                     (\A p \in 1..Len(call.results) : idx[p] # i) =>
                         \A p \in 1..Len(call.results) :
                             RanksBefore(call.query, idx[p], i)

\* three documents, the first of lower similarity than the two others, which
\* tie: a search of k = 2 returns the two that tie, the earlier one first
TopTwoOfThreeWithTie ==
    /\ call.op = "vectorSearch"
    /\ ~call.threw
    /\ call.k = 2
    /\ Len(documents) = 3
    /\ SimilarityOf(call.query, 1) < SimilarityOf(call.query, 2)
    /\ SimilarityOf(call.query, 2) = SimilarityOf(call.query, 3)
    /\ documents[2].id # documents[3].id
    /\ Len(call.results) = 2
    /\ call.results[1].contactId = documents[2].id
    /\ call.results[2].contactId = documents[3].id

\* C14: in every state of an index with a configured dimension, the empty
\* index included, a search whose query has another length fails with the
\* dimension-mismatch error
SearchRejectsWrongLength ==
    (call.op = "vectorSearch" /\ dimension # {} /\ Len(call.query) \notin dimension)
        => call.threw

\* C15: addDocument of an embedding whose length differs from the configured
\* dimension fails, and the stored documents and the dimension stay as they were
AddDocumentRejectsWrongLength ==
    [][(/\ call'.op = "addDocument"
        /\ dimension # {}
        /\ call'.document.embedding # Null
        /\ Len(call'.document.embedding) \notin dimension)
          => (call'.threw /\ documents' = documents /\ dimension' = dimension)]_vars

\* a populated index has refused a document of another length
WrongLengthDocumentRefused ==
    /\ call.op = "addDocument"
    /\ call.threw
    /\ call.document.embedding # Null
    /\ Len(call.document.embedding) \notin dimension
    /\ dimension # {}
    /\ Len(documents) > 0

\* the document has an embedding of the given dimension
HasDimension(document, dim) ==
    document.embedding # Null /\ Len(document.embedding) \in dim

\* C16: addDocuments appends the documents of the batch that have an embedding
\* of the configured dimension, all of them and only them, in the order of the
\* batch; the documents stored before stay where they were, and so does the
\* dimension
AddDocumentsKeepsTheValidOnes ==
    [][call'.op = "addDocuments" =>
          /\ dimension' = dimension
          /\ Len(documents') >= Len(documents)
          /\ SubSeq(documents', 1, Len(documents)) = documents
          /\ \E f \in [1..(Len(documents') - Len(documents)) -> 1..Len(call'.batch)] :
                /\ \A p \in DOMAIN f : documents'[Len(documents) + p] = call'.batch[f[p]]
                /\ \A p, q \in DOMAIN f : p < q => f[p] < f[q]
                /\ \A i \in 1..Len(call'.batch) :
                       HasDimension(call'.batch[i], dimension)
                           <=> \E p \in DOMAIN f : f[p] = i]_vars

\* a batch of an invalid document followed by a valid one, on a populated
\* index: the valid one is the last stored document
BatchOfInvalidThenValid ==
    /\ call.op = "addDocuments"
    /\ Len(call.batch) = 2
    /\ ~HasDimension(call.batch[1], dimension)
    /\ HasDimension(call.batch[2], dimension)
    /\ Len(documents) = 2
    /\ documents[2] = call.batch[2]

\* C17: removeDocument(id) returns false and changes nothing when no stored
\* document has the id; otherwise it returns true and takes out the first
\* document of that id and no other, the rest keeping its order
RemoveDocumentTakesTheFirst ==
    [][call'.op = "removeDocument" =>
          /\ dimension' = dimension
          /\ IF \A i \in 1..Len(documents) : documents[i].id # call'.id
             THEN ~call'.returned /\ documents' = documents
             ELSE /\ call'.returned
                  /\ \E i \in 1..Len(documents) :
                        /\ documents[i].id = call'.id
                        /\ \A j \in 1..(i - 1) : documents[j].id # call'.id
                        /\ Len(documents') = Len(documents) - 1
                        /\ \A j \in 1..(i - 1) : documents'[j] = documents[j]
                        /\ \A j \in i..Len(documents') :
                               documents'[j] = documents[j + 1]]_vars

\* a removal that found the id, with a later document of the same id still
\* stored behind a document of another id
FirstOfTwoRemoved ==
    /\ call.op = "removeDocument"
    /\ call.returned
    /\ Len(documents) = 2
    /\ documents[1].id # call.id
    /\ documents[2].id = call.id

\* C18: in every reachable state of the index every stored embedding has the
\* length of the configured dimension, and a dimension that is set is changed by
\* no clear and by no insert
StoredEmbeddingsHaveTheDimension ==
    /\ [](\A i \in 1..Len(documents) : HasDimension(documents[i], dimension))
    /\ [][(dimension # {} /\ call'.op \in {"clear", "addDocument", "addDocuments"})
             => dimension' = dimension]_vars

\* the first insert set a dimension other than the one initialize configures,
\* and a later clear has emptied the index and kept that dimension
ClearKeptFirstInsertDimension ==
    /\ call.op = "clear"
    /\ documents = <<>>
    /\ dimension = {Len(WrongDim)}

(***************************************************************************)
(* The rebuilds of the tag index, over the whole catalogue                 *)
(***************************************************************************)

InitRebuild ==
    /\ contacts \in SUBSET ContactIds
    /\ maxResults = 25
    /\ vsReady = FALSE
    /\ documents = <<>>
    /\ dimension = {}
    /\ cache = EmptyCache
    /\ lastDebug = <<>>
    /\ call = NoCall
    /\ mIn = NoMerge
    /\ mOut = NoMerge
    /\ tasks = NoTasks
    /\ conversations = {}
    /\ tagEdits = NoEdits

NextRebuild ==
    \/ \E row \in Catalogue : CreateContact(row)
    \/ \E id \in ContactIds : DeleteContact(id)
    \/ \E resp \in [NeedsProvider(Rows(contacts), cache) -> TagOutcomes], dbFails \in BOOLEAN :
           Initialize(resp, dbFails)
    \/ \E resp \in [NeedsProvider(Rows(contacts), cache) -> TagOutcomes], dbFails \in BOOLEAN :
           RebuildTagIndex(resp, dbFails)
    \/ \E tagsPresent \in BOOLEAN,
          resp \in [NeedsProvider(Rows(contacts), cache) -> TagOutcomes],
          dbFails \in BOOLEAN :
           UpdateContact(tagsPresent, resp, dbFails)

SpecRebuild == InitRebuild /\ [][NextRebuild]_vars

\* the documents of the index that carry the id
DocumentsOf(id) == {i \in 1..Len(documents) : documents[i].id = id}

\* C19: when the provider fails for the tag text of one contact during
\* rebuildTagIndex, the index still holds a document for every contact whose
\* embedding the rebuild obtained
OneFailureExcludesOneContact ==
    (call.op = "rebuild" /\ call.by = "rebuildTagIndex" /\ call.failedAt # "none") =>
        \A id \in call.embedded : DocumentsOf(id) # {}

RebuildTwiceIsRebuildOnce ==
    [][(/\ call.op = "rebuild" /\ call.by = "rebuildTagIndex"
        /\ call'.op = "rebuild" /\ call'.by = "rebuildTagIndex"
        /\ call.ran /\ call'.ran
        /\ call.listed /\ call'.listed
        /\ call'.failedAt = call.failedAt)
          => (/\ contacts' = contacts
              /\ documents' = documents
              /\ dimension' = dimension
              /\ cache' = cache)]_vars

\* a rebuildTagIndex has indexed two contacts of different tag texts, both now
\* in the cache: the state a second rebuildTagIndex starts from and ends in
RebuiltIndexOfTwo ==
    /\ call.op = "rebuild"
    /\ call.by = "rebuildTagIndex"
    /\ call.ran /\ call.listed /\ call.failedAt = "none"
    /\ call.embedded = {"c1", "c4"}
    /\ Len(documents) = 2
    /\ Cardinality(DOMAIN cache) = 2

(***************************************************************************)
(* The embedding cache alone, near its capacity                            *)
(***************************************************************************)

Digits == {"0", "1", "2", "3", "4", "5", "6", "7", "8", "9"}

\* the texts of three digits: as many as the cache takes
NumeralTexts == [1..3 -> Digits]

\* a cache at its capacity, and the same cache short of one entry
FullCache       == [t \in NumeralTexts |-> UnitX]
NearlyFullCache == [t \in NumeralTexts \ {Txt555} |-> UnitX]

\* the texts handed to generateEmbeddingCached: two that no cache of Init holds,
\* one that the nearly full cache lacks, one that both full caches hold
CacheTexts == {TxtAda, TxtXyz, Txt555, <<"0", "0", "0">>}

InitCache ==
    /\ contacts = {}
    /\ maxResults = 25
    /\ vsReady = FALSE
    /\ documents = <<>>
    /\ dimension = {}
    /\ cache \in {EmptyCache, NearlyFullCache, FullCache}
    /\ lastDebug = <<>>
    /\ call = NoCall
    /\ mIn = NoMerge
    /\ mOut = NoMerge
    /\ tasks = NoTasks
    /\ conversations = {}
    /\ tagEdits = NoEdits

\* AIService.generateEmbeddingCached
GenerateEmbeddingCached(text, provider) ==
    /\ \E e \in {generateEmbeddingCached(cache, text, provider)} :
           /\ cache' = e.cache
           /\ call' = [op |-> "generateEmbeddingCached", text |-> text,
                       threw |-> e.threw, asked |-> e.asked,
                       embedding |-> e.embedding]
    /\ UNCHANGED <<contacts, maxResults, vsReady, documents, dimension, lastDebug,
                   mIn, mOut,
                   tasks, conversations, tagEdits>>

NextCache ==
    \E text \in CacheTexts, provider \in QueryOutcomes \cup TagOutcomes :
        GenerateEmbeddingCached(text, provider)

SpecCache == InitCache /\ [][NextCache]_vars

\* C23: the cache never holds more than 1000 entries; a call for a cached text
\* returns the cached vector and does not call the provider; no call removes or
\* changes an entry; a call during which the provider fails adds no entry
CacheIsConsultedAndBounded ==
    /\ [](Cardinality(DOMAIN cache) <= CacheCapacity)
    /\ [][call'.op = "generateEmbeddingCached" =>
            /\ call'.text \in DOMAIN cache =>
                   /\ ~call'.asked
                   /\ ~call'.threw
                   /\ call'.embedding = cache[call'.text]
                   /\ cache' = cache
            /\ \A t \in DOMAIN cache : t \in DOMAIN cache' /\ cache'[t] = cache[t]
            /\ call'.threw => cache' = cache]_vars

\* the provider answered for a text that a cache at its capacity does not hold:
\* the vector is returned and not cached
AnsweredAtCapacityNotCached ==
    /\ call.op = "generateEmbeddingCached"
    /\ call.asked
    /\ ~call.threw
    /\ Cardinality(DOMAIN cache) = CacheCapacity
    /\ call.text \notin DOMAIN cache

(***************************************************************************)
(* ContactService.searchContacts over the directory                        *)
(***************************************************************************)

\* the default limit of ContactRepository.searchContacts
RepositorySearchLimit == 50

\* The CASE of the ORDER BY clause of ContactRepository.searchContacts; the
\* model's rows have no notes (the column is NULL and matches nothing)
RepositoryLikeRank(row, pattern) ==
    IF Like(row.name, pattern) THEN 1
    ELSE IF Like(row.phone, pattern) THEN 2
    ELSE IF Like(row.email, pattern) THEN 3
    ELSE IF Like(row.tags, pattern) THEN 4
    ELSE 6

\* ContactRepository.searchContacts({query}): the query is taken as it is
repositorySearchContacts(rows, query) ==
    LET hit == {r \in rows : \/ Like(r.name, query) \/ Like(r.phone, query)
                             \/ Like(r.email, query) \/ Like(r.tags, query)}
    IN  rowsToContacts(limitRows(OrderRows(hit, [r \in hit |-> RepositoryLikeRank(r, query)]),
                                 RepositorySearchLimit))

\* a search that hands every query to the repository
searchContactsAlwaysRepository(rows, query) ==
    [repository |-> TRUE, result |-> repositorySearchContacts(rows, query)]

\* ContactService.searchContacts. repository: the repository's search was called
searchContacts(rows, query) ==
    IF trim(query) = <<>>
    THEN [repository |-> FALSE, result |-> getAllContacts(rows)]
    ELSE [repository |-> TRUE, result |-> repositorySearchContacts(rows, query)]

DirectoryQueries == {<<>>, TxtBlank, TxtAda, TxtAi, Txt555, TxtXyz}

InitDirectory ==
    /\ contacts \in SUBSET ContactIds
    /\ maxResults = 25
    /\ vsReady = FALSE
    /\ documents = <<>>
    /\ dimension = {}
    /\ cache = EmptyCache
    /\ lastDebug = <<>>
    /\ call = NoCall
    /\ mIn = NoMerge
    /\ mOut = NoMerge
    /\ tasks = NoTasks
    /\ conversations = {}
    /\ tagEdits = NoEdits

\* ContactService.searchContacts
SearchContacts(query) ==
    /\ \E r \in {searchContacts(Rows(contacts), query)} :
           call' = [op |-> "searchContacts", query |-> query,
                    repository |-> r.repository, result |-> r.result]
    /\ UNCHANGED <<contacts, maxResults, vsReady, documents, dimension, cache,
                   lastDebug, mIn, mOut,
                   tasks, conversations, tagEdits>>

NextDirectory ==
    \/ \E row \in Catalogue : CreateContact(row)
    \/ \E id \in ContactIds : DeleteContact(id)
    \/ \E query \in DirectoryQueries : SearchContacts(query)

SpecDirectory == InitDirectory /\ [][NextDirectory]_vars

\* C27: searchContacts of an empty or blank query returns what getAllContacts
\* returns and does not call the repository's search; of any other query it
\* returns what the repository's searchContacts({query}) returns
SearchContactsDelegates ==
    call.op = "searchContacts" =>
        IF trim(call.query) = <<>>
        THEN /\ ~call.repository
             /\ call.result = selectAllByName(Rows(contacts))
        ELSE /\ call.repository
             /\ call.result = repositorySearchContacts(Rows(contacts), call.query)

\* a blank query on a directory of which one row only holds a blank: all
\* contacts are returned
BlankQueryReturnsAll ==
    /\ call.op = "searchContacts"
    /\ call.query = TxtBlank
    /\ contacts = {"c1", "c2", "c4"}
    /\ Len(call.result) = 3

\* the first whitespace-separated term of a query that has one
FirstTerm(query) == SelectNonEmpty(split(query))[1]

\* the column contains the term, case-insensitively
ContainsTerm(column, term) ==
    column # Null /\ includes(toLowerCase(column), toLowerCase(term))

\* C29: every contact a keyword search returns contains the first term of the
\* query in its name, email, phone or tags; at most limit results are returned,
\* in the order of the matched field and then of the name; every score is
\* above 0 and at most 1
KeywordResultsContainFirstTerm ==
    call.op = "keywordSearch" =>
        /\ Len(call.result) <= maxResults
        /\ \A i \in 1..Len(call.result) :
               /\ \/ ContainsTerm(RowOf(call.result[i].contactId).name, FirstTerm(call.query))
                  \/ ContainsTerm(RowOf(call.result[i].contactId).email, FirstTerm(call.query))
                  \/ ContainsTerm(RowOf(call.result[i].contactId).phone, FirstTerm(call.query))
                  \/ ContainsTerm(RowOf(call.result[i].contactId).tags, FirstTerm(call.query))
               /\ call.result[i].score > 0
               /\ call.result[i].score <= 1000
        /\ \A i, j \in 1..Len(call.result) :
               i < j =>
                   \/ LikeRank(RowOf(call.result[i].contactId), FirstTerm(call.query))
                        < LikeRank(RowOf(call.result[j].contactId), FirstTerm(call.query))
                   \/ /\ LikeRank(RowOf(call.result[i].contactId), FirstTerm(call.query))
                           = LikeRank(RowOf(call.result[j].contactId), FirstTerm(call.query))
                      /\ TextLess(RowOf(call.result[i].contactId).name,
                                  RowOf(call.result[j].contactId).name)

\* C26: no search and no searchTagsOnly returns a contact that is not in the
\* directory: once a contact is deleted no later search returns it
DeletedContactIsNotReturned ==
    (call.op \in {"search", "searchTagsOnly"} /\ ~call.raised) =>
        \A i \in 1..Len(call.result) : call.result[i].contactId \in contacts

(***************************************************************************)
(* One search() call as the steps between its awaits.  The two branches    *)
(* handed to Promise.all complete in either order; each reads the state    *)
(* it finds when it runs.  The merge, the enrichment and the writing of    *)
(* lastDebug follow once both have completed.                              *)
(***************************************************************************)

\* the task id of the search call
SearchTask == "search"

\* what the second level of failures is not drawn for
OrderEnvs == {e \in SearchEnvs : ~e.kwDbFails2 /\ ~e.dirFails2}

\* a branch that has not completed yet
NoSemantic == [threw |-> FALSE, failed |-> FALSE, results |-> <<>>, cache |-> EmptyCache]
NoKeyword == [threw |-> FALSE, results |-> <<>>]

\* the first element of Promise.all: performSemanticSearch(query)
semanticBranch(task, ready, docs, dim, c, limit) ==
    performSemanticSearch(ready, docs, dim, c, task.query, limit, task.env.provider)

\* a keyword branch that gives up when the semantic branch has already answered
keywordBranchAfterSemantic(task, rows, limit) ==
    IF "semantic" \in {task.order[i] : i \in 1..Len(task.order)}
    THEN NoKeyword
    ELSE performKeywordSearch(rows, task.query, limit, task.env.kwDbFails)

\* the second element of Promise.all: performKeywordSearch(query)
keywordBranch(task, rows, limit) ==
    performKeywordSearch(rows, task.query, limit, task.env.kwDbFails)

Completed(task) == {task.order[i] : i \in 1..Len(task.order)}

InitOrder ==
    /\ contacts \in SUBSET SearchIds
    /\ maxResults \in MaxResultsChoices
    /\ vsReady = FALSE
    /\ documents = <<>>
    /\ dimension = {}
    /\ cache = EmptyCache
    /\ lastDebug = <<>>
    /\ call = NoCall
    /\ mIn = NoMerge
    /\ mOut = NoMerge
    /\ tasks = NoTasks
    /\ conversations = {}
    /\ tagEdits = NoEdits

\* search(query) up to the await of Promise.all; a blank query returns at once
BeginSearch(t, query, env) ==
    /\ t \notin DOMAIN tasks
    /\ IF isBlank(query)
       THEN /\ lastDebug' = <<>>
            /\ tasks' = tasks
            /\ call' = [op |-> "searchDone", query |-> query, env |-> env,
                        order |-> <<>>, path |-> "blank", raised |-> FALSE,
                        result |-> <<>>]
       ELSE /\ lastDebug' = lastDebug
            /\ tasks' = (t :> [pc |-> "branches", query |-> query, env |-> env,
                               order |-> <<>>, s |-> NoSemantic, k |-> NoKeyword,
                               out |-> NoCall]) @@ tasks
            /\ call' = NoCall
    /\ UNCHANGED <<contacts, maxResults, vsReady, documents, dimension, cache, mIn, mOut,
                   conversations, tagEdits>>

\* the semantic branch completes
SemanticCompletes(t) ==
    /\ t \in DOMAIN tasks
    /\ tasks[t].pc = "branches"
    /\ "semantic" \notin Completed(tasks[t])
    /\ \E s \in {semanticBranch(tasks[t], vsReady, documents, dimension, cache,
                                 maxResults)} :
           /\ tasks' = [tasks EXCEPT ![t].s = s, ![t].order = Append(@, "semantic")]
           /\ cache' = s.cache
    /\ call' = NoCall
    /\ UNCHANGED <<contacts, maxResults, vsReady, documents, dimension, lastDebug,
                   mIn, mOut, conversations, tagEdits>>

\* the keyword branch completes
KeywordCompletes(t) ==
    /\ t \in DOMAIN tasks
    /\ tasks[t].pc = "branches"
    /\ "keyword" \notin Completed(tasks[t])
    /\ \E k \in {keywordBranch(tasks[t], Rows(contacts), maxResults)} :
           tasks' = [tasks EXCEPT ![t].k = k, ![t].order = Append(@, "keyword")]
    /\ call' = NoCall
    /\ UNCHANGED <<contacts, maxResults, vsReady, documents, dimension, cache,
                   lastDebug, mIn, mOut, conversations, tagEdits>>

\* both branches have completed: the merge, the getContact calls of enrichResults
\* and, when something threw, the catch block, up to the next await
MergeResults(t) ==
    /\ t \in DOMAIN tasks
    /\ tasks[t].pc = "branches"
    /\ Completed(tasks[t]) = {"semantic", "keyword"}
    /\ \E out \in {afterSubsearches(Rows(contacts), maxResults, tasks[t].query,
                                     tasks[t].env, tasks[t].s, tasks[t].k)} :
           /\ tasks' = [tasks EXCEPT ![t].pc = "enriching", ![t].out = out]
           /\ lastDebug' = IF out.path = "fused" THEN lastDebug ELSE <<>>
    /\ call' = NoCall
    /\ UNCHANGED <<contacts, maxResults, vsReady, documents, dimension, cache,
                   mIn, mOut, conversations, tagEdits>>

\* after the last await: the try block stores the trace, and search() returns
SearchReturns(t) ==
    /\ t \in DOMAIN tasks
    /\ tasks[t].pc = "enriching"
    /\ lastDebug' = IF tasks[t].out.path = "fused" THEN tasks[t].out.lastDebug
                    ELSE lastDebug
    /\ call' = [op |-> "searchDone", query |-> tasks[t].query, env |-> tasks[t].env,
                order |-> tasks[t].order, path |-> tasks[t].out.path,
                raised |-> tasks[t].out.raised, result |-> tasks[t].out.result]
    /\ tasks' = NoTasks
    /\ UNCHANGED <<contacts, maxResults, vsReady, documents, dimension, cache,
                   mIn, mOut, conversations, tagEdits>>

NextOrder ==
    \/ \E resp \in [NeedsProvider(Rows(contacts), cache) -> TagOutcomes], dbFails \in BOOLEAN :
           /\ tasks = NoTasks
           /\ Initialize(resp, dbFails)
    \/ \E query \in Queries, env \in OrderEnvs :
           /\ ConsultsProvider(vsReady, cache, query) \/ env.provider = FailedOutcome
           /\ BeginSearch(SearchTask, query, env)
    \/ SemanticCompletes(SearchTask)
    \/ KeywordCompletes(SearchTask)
    \/ MergeResults(SearchTask)
    \/ SearchReturns(SearchTask)

SpecOrder == InitOrder /\ [][NextOrder]_vars

\* C24: whichever branch of one search() completes first, the list it returns is
\* the one the index, the directory and the embedding determine, and no step of
\* the call changes the documents of the vector index
CompletionOrderIsIrrelevant ==
    /\ [](call.op = "searchDone" =>
            call.result = search(Rows(contacts), vsReady, documents, dimension, cache,
                                 maxResults, call.query, call.env).result)
    /\ [][(tasks # NoTasks \/ tasks' # NoTasks \/ call'.op = "searchDone")
              => documents' = documents]_vars

KeywordFirstFusedBoth ==
    /\ call.op = "searchDone"
    /\ call.order = <<"keyword", "semantic">>
    /\ call.path = "fused"
    /\ Len(call.result) = 2
    /\ Len(documents) > 0

(***************************************************************************)
(* Overlapping rebuilds of the tag index.  buildVectorIndex is a sequence  *)
(* of steps separated by its awaits: the clear, the listing of the         *)
(* contacts, one embedding per tagged contact, the insertion.  Calls on    *)
(* the singleton service interleave at these points; nothing serialises    *)
(* them.                                                                   *)
(***************************************************************************)

\* the calls that may be in flight at once
RebuildTasks == {"r1", "r2"}

\* the public operations that end in buildVectorIndex
RebuildCallers == {"initialize", "rebuildTagIndex", "updateContact"}

InitOverlap ==
    /\ contacts \in SUBSET SearchIds
    /\ maxResults = 25
    /\ vsReady = FALSE
    /\ documents = <<>>
    /\ dimension = {}
    /\ cache = EmptyCache
    /\ lastDebug = <<>>
    /\ call = NoCall
    /\ mIn = NoMerge
    /\ mOut = NoMerge
    /\ tasks = NoTasks
    /\ conversations = {}
    /\ tagEdits = NoEdits

\* the task t has ended: it leaves the calls in flight
Ended(t) == [u \in DOMAIN tasks \ {t} |-> tasks[u]]

\* what a build that ended leaves to observe
buildOutcome(task, listed, failedAt, docs) ==
    rebuildCall(task.by, [ran |-> TRUE, listed |-> listed, failedAt |-> failedAt,
                          embedded |-> {docs[i].id : i \in 1..Len(docs)}])

\* initialize(), rebuildTagIndex() or updateContact(id, {tags}) up to the first
\* await of buildVectorIndex: initialize makes the store, the others return when
\* there is none; the store is cleared
StartBuild(t, by) ==
    /\ t \notin DOMAIN tasks
    /\ IF by = "initialize"
       THEN /\ vsReady' = TRUE
            /\ dimension' = storeInitialize(documents, dimension).dimension
            /\ documents' = storeClear(storeInitialize(documents, dimension).documents,
                                       dimension').documents
            /\ tasks' = (t :> [pc |-> "cleared", by |-> by, todo |-> <<>>,
                               acc |-> <<>>]) @@ tasks
            /\ call' = NoCall
       ELSE IF ~vsReady
       THEN /\ UNCHANGED <<vsReady, dimension, documents, tasks>>
            /\ call' = rebuildCall(by, [ran |-> FALSE, listed |-> FALSE,
                                        failedAt |-> "none", embedded |-> {}])
       ELSE /\ UNCHANGED <<vsReady, dimension>>
            /\ documents' = storeClear(documents, dimension).documents
            /\ tasks' = (t :> [pc |-> "cleared", by |-> by, todo |-> <<>>,
                               acc |-> <<>>]) @@ tasks
            /\ call' = NoCall
    /\ UNCHANGED <<contacts, maxResults, cache, lastDebug, mIn, mOut, conversations,
                   tagEdits>>

\* getAllContacts: the contacts the loop will go through, or the exception that
\* ends the build
ListContacts(t, dbFails) ==
    /\ t \in DOMAIN tasks
    /\ tasks[t].pc = "cleared"
    /\ IF dbFails
       THEN /\ tasks' = Ended(t)
            /\ call' = buildOutcome(tasks[t], FALSE, "none", <<>>)
       ELSE /\ tasks' = [tasks EXCEPT ![t].pc = "embedding",
                                      ![t].todo = getAllContacts(Rows(contacts))]
            /\ call' = NoCall
    /\ UNCHANGED <<contacts, maxResults, vsReady, documents, dimension, cache, lastDebug,
                   mIn, mOut, conversations, tagEdits>>

\* one turn of the loop: a contact without tag text is skipped, the embedding of
\* another is pushed, and a failure of the provider ends the build
EmbedNext(t, provider) ==
    /\ t \in DOMAIN tasks
    /\ tasks[t].pc = "embedding"
    /\ tasks[t].todo # <<>>
    /\ \E contact \in {Head(tasks[t].todo)} :
       \E tagText \in {tagTextOf(contact)} :
       \E e \in {generateEmbeddingCached(cache, TxtTagsPrefix \o tagText, provider)} :
           /\ (tagText = <<>> \/ ~e.asked) => provider = FailedOutcome
           /\ IF tagText = <<>>
              THEN /\ tasks' = [tasks EXCEPT ![t].todo = Tail(@)]
                   /\ cache' = cache
                   /\ call' = NoCall
              ELSE IF e.threw
              THEN /\ tasks' = Ended(t)
                   /\ cache' = e.cache
                   /\ call' = buildOutcome(tasks[t], TRUE, contact.id, tasks[t].acc)
              ELSE /\ tasks' = [tasks EXCEPT
                                   ![t].todo = Tail(@),
                                   ![t].acc = Append(@, [id |-> contact.id,
                                                         embedding |-> e.embedding])]
                   /\ cache' = e.cache
                   /\ call' = NoCall
    /\ UNCHANGED <<contacts, maxResults, vsReady, documents, dimension, lastDebug,
                   mIn, mOut, conversations, tagEdits>>

\* the loop is over: addDocuments pushes what it collected
InsertDocuments(t) ==
    /\ t \in DOMAIN tasks
    /\ tasks[t].pc = "embedding"
    /\ tasks[t].todo = <<>>
    /\ documents' = addDocuments(documents, dimension, tasks[t].acc)
    /\ tasks' = Ended(t)
    /\ call' = buildOutcome(tasks[t], TRUE, "none", tasks[t].acc)
    /\ UNCHANGED <<contacts, maxResults, vsReady, dimension, cache, lastDebug,
                   mIn, mOut, conversations, tagEdits>>

NextOverlap ==
    \/ \E t \in RebuildTasks, by \in RebuildCallers : StartBuild(t, by)
    \/ \E t \in RebuildTasks, dbFails \in BOOLEAN : ListContacts(t, dbFails)
    \/ \E t \in RebuildTasks, provider \in TagOutcomes : EmbedNext(t, provider)
    \/ \E t \in RebuildTasks : InsertDocuments(t)

SpecOverlap == InitOverlap /\ [][NextOverlap]_vars

\* C28: whatever rebuilds overlap, the index holds at most one document per
\* contact id, and when the last of them has finished it is the index one rebuild
\* over the directory produces
OneDocumentPerContactUnderOverlap ==
    /\ \A id \in ContactIds : Cardinality(DocumentsOf(id)) <= 1
    /\ (/\ tasks = NoTasks
        /\ call.op = "rebuild" /\ call.ran /\ call.listed /\ call.failedAt = "none"
        /\ NeedsProvider(Rows(contacts), cache) = {})
        => documents = buildVectorIndex(Rows(contacts), vsReady, documents, dimension,
                                        cache, EmptyCache, FALSE).documents

(***************************************************************************)
(* Conversations: deleting one recomputes the tags of its contact from     *)
(* the conversations that remain and rebuilds the tag index.               *)
(***************************************************************************)

\* ORDER BY createdAt DESC
RECURSIVE orderByCreatedAtDesc(_)
orderByCreatedAtDesc(rows) ==
    IF rows = {} THEN <<>>
    ELSE LET first == CHOOSE r \in rows : \A o \in rows : o.createdAt <= r.createdAt
         IN  <<first>> \o orderByCreatedAtDesc(rows \ {first})

\* a listing of the conversations of every contact
getConversationsOfAll(convs, contactId) ==
    LET ordered == orderByCreatedAtDesc({v \in ConversationCatalogue : v.id \in convs})
    IN  [i \in 1..Len(ordered) |->
            [id |-> ordered[i].id, contactId |-> ordered[i].contactId,
             tags |-> JsonParse(ordered[i].tags)]]

\* ConversationRepository.getConversationsByContact
getConversationsByContact(convs, contactId) ==
    LET ordered == orderByCreatedAtDesc({v \in ConversationCatalogue :
                                            v.id \in convs /\ v.contactId = contactId})
    IN  [i \in 1..Len(ordered) |->
            [id |-> ordered[i].id, contactId |-> ordered[i].contactId,
             tags |-> JsonParse(ordered[i].tags)]]

\* Array.from(new Set(xs)): the first occurrence of each element, in order
RECURSIVE arrayFromSet(_, _)
arrayFromSet(xs, acc) ==
    IF xs = <<>> THEN acc
    ELSE arrayFromSet(Tail(xs),
                      IF Head(xs) \in {acc[i] : i \in 1..Len(acc)} THEN acc
                      ELSE Append(acc, Head(xs)))

\* remaining.flatMap(c => c.tags || [])
RECURSIVE flatMapTags(_)
flatMapTags(remaining) ==
    IF remaining = <<>> THEN <<>>
    ELSE Head(remaining).tags \o flatMapTags(Tail(remaining))

\* the unionTags of deleteConversation
unionTags(remaining) == arrayFromSet(flatMapTags(remaining), <<>>)

\* the tags of the contact in the contacts table
TagsOf(id) == rowToContact(CHOOSE r \in ContactsTable : r.id = id).tags

\* what the provider answers for a tag text in the conversation specification
ConversationOutcomes == {[ok |-> TRUE, vector |-> UnitX]}

\* ... and what a search meets: the provider answering the query or not, the
\* table answering
ConversationEnvs ==
    {e \in OrderEnvs : e.provider \in ConversationOutcomes \cup {FailedOutcome}
                          /\ ~e.kwDbFails /\ ~e.dirFails}

\* the contacts whose screen is opened, and the tags typed in its add-tag dialog
OpenContacts == {"c1"}
ManualTags == {TxtMathematician}

InitConversation ==
    /\ contacts = ConversationContacts
    /\ maxResults = DefaultMaxResults
    /\ vsReady = FALSE
    /\ documents = <<>>
    /\ dimension = {}
    /\ cache = EmptyCache
    /\ lastDebug = <<>>
    /\ call = NoCall
    /\ mIn = NoMerge
    /\ mOut = NoMerge
    /\ tasks = NoTasks
    /\ conversations \in SUBSET ConversationIds
    /\ tagEdits \in {e \in EditFunctions :
                        \A id \in DOMAIN e :
                            e[id] = unionTags(getConversationsByContact(conversations, id))}

\* the two rebuilds that end processConversation and deleteConversation:
\* hybrid.updateContact(id, {tags}) and hybrid.rebuildTagIndex()
RebuildTwice(rows, first, resp2, dbFails2) ==
    buildVectorIndex(rows, vsReady, first.documents, dimension, first.cache, resp2,
                     dbFails2)

\* ConversationService.deleteConversation(id).  audioFails: deleting the audio
\* file throws; recalc: the recomputation runs to its end ("done"), or the
\* listing of the remaining conversations or the update of the contact throws
\* ("failed"), which the try block swallows
DeleteConversation(id, audioFails, recalc, resp1, dbFails1) ==
    IF id \notin conversations
    THEN /\ call' = [op |-> "deleteConversation", raised |-> FALSE, deleted |-> FALSE]
         /\ UNCHANGED <<contacts, maxResults, vsReady, documents, dimension, cache,
                        lastDebug, mIn, mOut, tasks, conversations, tagEdits>>
    ELSE IF audioFails
    THEN /\ call' = [op |-> "deleteConversation", raised |-> TRUE, deleted |-> FALSE]
         /\ UNCHANGED <<contacts, maxResults, vsReady, documents, dimension, cache,
                        lastDebug, mIn, mOut, tasks, conversations, tagEdits>>
    ELSE \E contactId \in {ConversationOf(id).contactId} :
         \E remaining \in {getConversationsByContact(conversations \ {id}, contactId)} :
         \E observed \in {[op |-> "deleteConversation", id |-> id, raised |-> FALSE,
                            deleted |-> TRUE, contactId |-> contactId,
                            remaining |-> remaining, tagsBefore |-> TagsOf(contactId),
                            indexedBefore |-> \E i \in 1..Len(documents) :
                                                 documents[i].id = contactId]} :
             /\ conversations' = conversations \ {id}
             /\ IF recalc # "done"
                THEN /\ call' = observed @@
                                 [recalc |-> recalc, ran |-> FALSE, listed |-> FALSE,
                                  failedAt |-> "none"]
                     /\ UNCHANGED <<tagEdits, documents, cache>>
                ELSE \E edits \in {(contactId :> unionTags(remaining)) @@ tagEdits} :
                     \E rows \in {Directory(contacts, edits)} :
                     \E b1 \in {buildVectorIndex(rows, vsReady, documents, dimension,
                                                  cache, resp1, dbFails1)} :
                     \E resp2 \in [NeedsProvider(rows, b1.cache) -> ConversationOutcomes],
                        dbFails2 \in BOOLEAN :
                     \E b2 \in {RebuildTwice(rows, b1, resp2, dbFails2)} :
                         /\ tagEdits' = edits
                         /\ documents' = b2.documents
                         /\ cache' = b2.cache
                         /\ call' = observed @@
                                     [recalc |-> recalc, ran |-> b2.ran,
                                      listed |-> b2.listed, failedAt |-> b2.failedAt]
             /\ UNCHANGED <<contacts, maxResults, vsReady, dimension, lastDebug,
                            mIn, mOut, tasks>>

\* handleAddTag of the contact screen: the tag is appended to the contact's
\* tags, and hybrid.updateContact rebuilds the index; a failure of the update of
\* the contact leaves everything as it was
AddTag(id, tag, updateFails, resp, dbFails) ==
    /\ id \in contacts
    /\ IF updateFails
       THEN /\ call' = [op |-> "addTag", id |-> id, raised |-> TRUE]
            /\ UNCHANGED <<tagEdits, documents, cache>>
       ELSE \E edits \in {(id :> Append(TagsOf(id), tag)) @@ tagEdits} :
            \E b \in {buildVectorIndex(Directory(contacts, edits), vsReady, documents,
                                        dimension, cache, resp, dbFails)} :
                /\ tagEdits' = edits
                /\ documents' = b.documents
                /\ cache' = b.cache
                /\ call' = [op |-> "addTag", id |-> id, raised |-> FALSE]
    /\ UNCHANGED <<contacts, maxResults, vsReady, dimension, lastDebug, mIn, mOut,
                   tasks, conversations>>

NextConversation ==
    \/ \E resp \in [NeedsProvider(ContactsTable, cache) -> ConversationOutcomes],
          dbFails \in BOOLEAN :
           /\ ~vsReady
           /\ Initialize(resp, dbFails)
    \/ \E id \in ConversationIds, audioFails \in BOOLEAN,
          recalc \in {"done", "failed"},
          dbFails1 \in BOOLEAN :
           \E resp1 \in [NeedsProvider(
                             Directory(contacts,
                                 (ConversationOf(id).contactId :>
                                     unionTags(getConversationsByContact(
                                         conversations \ {id},
                                         ConversationOf(id).contactId))) @@ tagEdits),
                             cache) -> ConversationOutcomes] :
               /\ (id \notin conversations \/ audioFails \/ recalc # "done") => ~dbFails1
               /\ (id \notin conversations) => (~audioFails /\ recalc = "done")
               /\ audioFails => recalc = "done"
               /\ DeleteConversation(id, audioFails, recalc, resp1, dbFails1)
    \/ \E id \in OpenContacts, tag \in ManualTags, updateFails \in BOOLEAN,
          dbFails \in BOOLEAN :
           /\ tag \notin {TagsOf(id)[i] : i \in 1..Len(TagsOf(id))}
           /\ \E resp \in [NeedsProvider(
                               Directory(contacts,
                                         (id :> Append(TagsOf(id), tag)) @@ tagEdits),
                               cache) -> ConversationOutcomes] :
                  /\ updateFails => ~dbFails
                  /\ AddTag(id, tag, updateFails, resp, dbFails)
    \/ \E query \in ConversationQueries, env \in ConversationEnvs :
           /\ ConsultsProvider(vsReady, cache, query) \/ env.provider = FailedOutcome
           /\ Search(query, env)

SpecConversation == InitConversation /\ [][NextConversation]_vars

\* the elements of a list
ElementsOf(xs) == {xs[i] : i \in 1..Len(xs)}

\* the tags of the conversation of that id
ConversationTags(id) == ElementsOf(JsonParse(ConversationOf(id).tags))

\* the tags of the conversations the contact has in the table
RemainingTags(contactId) ==
    UNION {ConversationTags(v.id) : v \in {x \in ConversationCatalogue :
                                              x.id \in conversations /\ x.contactId = contactId}}

\* the text occurs in the name, the email or the phone of the contact
InIdentity(id, text) ==
    \/ ContainsTerm(RowOf(id).name, text)
    \/ ContainsTerm(RowOf(id).email, text)
    \/ ContainsTerm(RowOf(id).phone, text)

\* deleteConversation has deleted the last conversation of its contact
DeletedTheOnlyConversation ==
    /\ call.op = "deleteConversation"
    /\ call.deleted
    /\ call.remaining = <<>>

DebugTraceParallelsResults ==
    (call.op = "search" /\ ~call.raised) =>
        /\ Len(lastDebug) = Len(call.result)
        /\ \A i \in 1..Len(call.result) :
               /\ lastDebug[i].contactId = call.result[i].contactId
               /\ lastDebug[i].final = call.result[i].score
        /\ isBlank(call.query) => call.result = <<>>

====
